---- MODULE Spec2Model ----
(***************************************************************************)
(* Model of plaso/lib/objectfilter.py: the lexer (Parser.NextToken and its *)
(* callbacks), the reducer (Parser.Reduce), the AST compiler (Compile) and *)
(* the evaluation tree (Matches, ValueExpander.Expand).                    *)
(*                                                                         *)
(* Text is a sequence of one-character strings.  Python semantics are the  *)
(* Python 3 ones (ordering str against int raises TypeError).              *)
(***************************************************************************)
EXTENDS Integers, Sequences, FiniteSets, TLC

(***************************************************************************)
(* Bounds of the model.                                                    *)
(***************************************************************************)
MaxItems == 3
MaxRaw == 4
MaxList == 2
MaxChildren == 2
MaxCallers == 2

(***************************************************************************)
(* Characters and character classes of the regular expressions.            *)
(***************************************************************************)
Digits == {"0", "1", "2", "3", "4", "5", "6", "7", "8", "9"}
LowerLetters ==
  {"a", "b", "c", "d", "e", "f", "g", "h", "i", "j", "k", "l", "m", "n", "o",
   "p", "q", "r", "s", "t", "u", "v", "w", "x", "y", "z"}
UpperLetters == {"A", "C", "D", "E", "I", "N", "O", "Q", "R", "S", "T", "U", "X"}
Spaces == {" ", "\t", "\n", "\r"}
Symbols ==
  {"(", ")", "@", ".", "_", "<", ">", "!", "=", "&", "|", "\"", "'", "\\",
   "[", "-", "<BS>", "<OTHER>"}
Alphabet == Digits \cup LowerLetters \cup UpperLetters \cup Spaces \cup Symbols

\* str.lower() on one character
LowerChar(c) ==
  CASE c = "A" -> "a" [] c = "C" -> "c" [] c = "D" -> "d" [] c = "E" -> "e"
    [] c = "I" -> "i" [] c = "N" -> "n" [] c = "O" -> "o" [] c = "Q" -> "q"
    [] c = "R" -> "r" [] c = "S" -> "s" [] c = "T" -> "t" [] c = "U" -> "u"
    [] c = "X" -> "x" [] OTHER -> c

\* str.lower()
Lower(s) == [i \in 1..Len(s) |-> LowerChar(s[i])]

\* \w under re.U
WordChars == Digits \cup LowerLetters \cup UpperLetters \cup {"_"}
\* [\w._0-9]
AttrChars == WordChars \cup {"."}

Min(S) == CHOOSE x \in S : \A y \in S : x <= y

\* number of leading characters of b that are in S (a greedy S* at the start)
Span(b, S) ==
  LET bad == {i \in 1..Len(b) : b[i] \notin S}
  IN  IF bad = {} THEN Len(b) ELSE Min(bad) - 1

Drop(b, n) == SubSeq(b, n + 1, Len(b))
Take(b, n) == SubSeq(b, 1, n)

\* the literal w matches at the start of b, ignoring case (re.I)
StartsWithI(b, w) ==
  /\ Len(b) >= Len(w)
  /\ \A i \in 1..Len(w) : LowerChar(b[i]) = LowerChar(w[i])

(***************************************************************************)
(* Length of the match of each regular expression of Parser.tokens at the  *)
(* start of b; 0 when it does not match (none matches the empty string).   *)
(***************************************************************************)
MatchLen(regex, b) ==
  CASE regex = "CONTEXT" ->             \* \@[\w._0-9]+
         IF Len(b) >= 2 /\ b[1] = "@" /\ Span(Drop(b, 1), AttrChars) > 0
         THEN 1 + Span(Drop(b, 1), AttrChars) ELSE 0
    [] regex = "NOT_SPACE_PAREN" ->     \* [^\s\(\)]
         IF Len(b) >= 1 /\ b[1] \notin Spaces \cup {"(", ")"} THEN 1 ELSE 0
    [] regex = "OPEN" ->                \* \(
         IF Len(b) >= 1 /\ b[1] = "(" THEN 1 ELSE 0
    [] regex = "CLOSE" ->               \* \)
         IF Len(b) >= 1 /\ b[1] = ")" THEN 1 ELSE 0
    [] regex = "DQUOTE" ->              \* "
         IF Len(b) >= 1 /\ b[1] = "\"" THEN 1 ELSE 0
    [] regex = "SQUOTE" ->              \* '
         IF Len(b) >= 1 /\ b[1] = "'" THEN 1 ELSE 0
    [] regex = "HEX_ESCAPE" ->          \* \\x(..)
         IF Len(b) >= 4 /\ b[1] = "\\" /\ LowerChar(b[2]) = "x" THEN 4 ELSE 0
    [] regex = "ESCAPE" ->              \* \\(.)
         IF Len(b) >= 2 /\ b[1] = "\\" THEN 2 ELSE 0
    [] regex = "DQ_RUN" ->              \* [^\\"]+
         Span(b, Alphabet \ {"\\", "\""})
    [] regex = "SQ_RUN" ->              \* [^\\\']+
         Span(b, Alphabet \ {"\\", "'"})
    [] regex = "ATTRIBUTE" ->           \* [\w._0-9]+
         Span(b, AttrChars)
    [] regex = "NOT_SP" ->              \* not followed by one space
         IF StartsWithI(b, <<"n", "o", "t", " ">>) THEN 4 ELSE 0
    [] regex = "OPERATOR" ->            \* (\w+|[<>!=]=?)
         IF Span(b, WordChars) > 0 THEN Span(b, WordChars)
         ELSE IF Len(b) >= 1 /\ b[1] \in {"<", ">", "!", "="}
              THEN (IF Len(b) >= 2 /\ b[2] = "=" THEN 2 ELSE 1)
              ELSE 0
    [] regex = "NOT" ->                 \* not
         IF StartsWithI(b, <<"n", "o", "t">>) THEN 3 ELSE 0
    [] regex = "SPACES" ->              \* \s+
         Span(b, Spaces)
    [] regex = "NONE_OF_NOT" ->         \* ([^not])
         IF Len(b) >= 1 /\ LowerChar(b[1]) \notin {"n", "o", "t"} THEN 1 ELSE 0
    [] regex = "FLOAT" ->               \* (\d+\.\d+)
         LET n == Span(b, Digits)
         IN  IF n > 0 /\ Len(b) >= n + 2 /\ b[n + 1] = "."
                /\ Span(Drop(b, n + 1), Digits) > 0
             THEN n + 1 + Span(Drop(b, n + 1), Digits) ELSE 0
    [] regex = "INT16" ->               \* (0x\d+)
         IF Len(b) >= 3 /\ b[1] = "0" /\ LowerChar(b[2]) = "x"
            /\ Span(Drop(b, 2), Digits) > 0
         THEN 2 + Span(Drop(b, 2), Digits) ELSE 0
    [] regex = "INT" ->                 \* (\d+)
         Span(b, Digits)
    [] regex = "BINARY_OP" ->           \* (?i)(and|or|\&\&|\|\|)
         IF StartsWithI(b, <<"a", "n", "d">>) THEN 3
         ELSE IF StartsWithI(b, <<"o", "r">>) THEN 2
         ELSE IF StartsWithI(b, <<"&", "&">>) THEN 2
         ELSE IF StartsWithI(b, <<"|", "|">>) THEN 2
         ELSE 0
    [] regex = "ANY" ->                 \* . (with re.DOTALL)
         IF Len(b) >= 1 THEN 1 ELSE 0

Rule(sr, re, acts, ns) ==
  [state_regex |-> sr, regex |-> re, actions |-> acts, next_state |-> ns]

\* Parser.tokens, in declaration order; next_state "None" is Python's None
tokens ==
  << Rule("INITIAL", "CONTEXT", <<"ContextOperator", "PushState">>, "CONTEXTOPEN"),
     Rule("INITIAL", "NOT_SPACE_PAREN", <<"PushState", "PushBack">>, "ATTRIBUTE"),
     Rule("INITIAL", "OPEN", <<"PushState", "BracketOpen">>, "None"),
     Rule("INITIAL", "CLOSE", <<"BracketClose">>, "BINARY"),
     Rule("CONTEXTOPEN", "OPEN", <<"BracketOpen">>, "INITIAL"),
     Rule("STRING", "DQUOTE", <<"PopState", "StringFinish">>, "None"),
     Rule("STRING", "HEX_ESCAPE", <<"HexEscape">>, "None"),
     Rule("STRING", "ESCAPE", <<"StringEscape">>, "None"),
     Rule("STRING", "DQ_RUN", <<"StringInsert">>, "None"),
     Rule("SQ_STRING", "SQUOTE", <<"PopState", "StringFinish">>, "None"),
     Rule("SQ_STRING", "HEX_ESCAPE", <<"HexEscape">>, "None"),
     Rule("SQ_STRING", "ESCAPE", <<"StringEscape">>, "None"),
     Rule("SQ_STRING", "SQ_RUN", <<"StringInsert">>, "None"),
     Rule("ATTRIBUTE", "ATTRIBUTE", <<"StoreAttribute">>, "OPERATOR"),
     Rule("OPERATOR", "NOT_SP", <<"FlipLogic">>, "None"),
     Rule("OPERATOR", "OPERATOR", <<"StoreOperator">>, "CHECKNOT"),
     Rule("CHECKNOT", "NOT", <<"FlipLogic">>, "ARG"),
     Rule("CHECKNOT", "SPACES", <<>>, "None"),
     Rule("CHECKNOT", "NONE_OF_NOT", <<"PushBack">>, "ARG"),
     Rule("ARG", "FLOAT", <<"InsertFloatArg">>, "ARG"),
     Rule("ARG", "INT16", <<"InsertInt16Arg">>, "ARG"),
     Rule("ARG", "INT", <<"InsertIntArg">>, "ARG"),
     Rule("ARG", "DQUOTE", <<"PushState", "StringStart">>, "STRING"),
     Rule("ARG", "SQUOTE", <<"PushState", "StringStart">>, "SQ_STRING"),
     Rule("BINARY", "BINARY_OP", <<"BinaryOperator">>, "INITIAL"),
     Rule("BINARY", "SPACES", <<>>, "None"),
     Rule("BINARY", "ANY", <<"PushBack", "PopState">>, "None"),
     Rule(".", "SPACES", <<>>, "None") >>

\* token.state_regex.match(current_state): the state names are no prefixes of
\* one another, so a name matches only itself; "." matches every state
StateMatches(state_regex, s) == state_regex = "." \/ state_regex = s

(***************************************************************************)
(* Literal values: integers, floats (n / 10^s, trailing zeros removed) and *)
(* text.  NoneStr is Python's None where a string may stand.               *)
(***************************************************************************)
NoneStr == <<"None">>

IntVal(n) == [t |-> "int", v |-> n]
StrVal(s) == [t |-> "str", v |-> s]

RECURSIVE FloatVal(_, _)
FloatVal(n, s) ==
  IF s > 0 /\ n % 10 = 0 THEN FloatVal(n \div 10, s - 1)
  ELSE [t |-> "float", n |-> n, s |-> s]

DigitSeq == <<"0", "1", "2", "3", "4", "5", "6", "7", "8", "9">>
DigitVal(c) == (CHOOSE i \in 1..10 : DigitSeq[i] = c) - 1

\* the value of a string of decimal digits read in the given base
RECURSIVE ParseDigits(_, _)
ParseDigits(ds, base) ==
  IF ds = <<>> THEN 0
  ELSE ParseDigits(Take(ds, Len(ds) - 1), base) * base + DigitVal(ds[Len(ds)])

\* float(string) for a match of \d+\.\d+
ParseFloat(str) ==
  LET n == Span(str, Digits)
      frac == Drop(str, n + 1)
  IN  FloatVal(ParseDigits(Take(str, n) \o frac, 10), Len(frac))

\* codecs.decode(bytes([code]), 'utf-8') for code < 128, as a character of the
\* model's alphabet; every code point outside it is "<OTHER>"
LowerSeq ==
  <<"a", "b", "c", "d", "e", "f", "g", "h", "i", "j", "k", "l", "m", "n", "o",
    "p", "q", "r", "s", "t", "u", "v", "w", "x", "y", "z">>
UpperSeq ==
  <<"A", "<OTHER>", "C", "D", "E", "<OTHER>", "<OTHER>", "<OTHER>", "I",
    "<OTHER>", "<OTHER>", "<OTHER>", "<OTHER>", "N", "O", "<OTHER>", "Q", "R",
    "S", "T", "U", "<OTHER>", "<OTHER>", "X", "<OTHER>", "<OTHER>">>
CharOfCode(n) ==
  CASE n \in 48..57 -> DigitSeq[n - 47]
    [] n \in 97..122 -> LowerSeq[n - 96]
    [] n \in 65..90 -> UpperSeq[n - 64]
    [] n = 8 -> "<BS>" [] n = 9 -> "\t" [] n = 10 -> "\n" [] n = 13 -> "\r"
    [] n = 32 -> " " [] n = 33 -> "!" [] n = 34 -> "\"" [] n = 38 -> "&"
    [] n = 39 -> "'" [] n = 40 -> "(" [] n = 41 -> ")" [] n = 45 -> "-"
    [] n = 46 -> "." [] n = 60 -> "<" [] n = 61 -> "=" [] n = 62 -> ">"
    [] n = 64 -> "@" [] n = 91 -> "[" [] n = 92 -> "\\" [] n = 95 -> "_"
    [] n = 124 -> "|"
    [] OTHER -> "<OTHER>"

\* ord(c)
CodeOfChar(c) ==
  IF c = "<OTHER>" THEN 127 ELSE CHOOSE n \in 0..126 : CharOfCode(n) = c

HexDigitChars == Digits \cup {"a", "b", "c", "d", "e", "f", "A", "C", "D", "E"}
HexDigitVal(c) ==
  IF c \in Digits THEN DigitVal(c) ELSE CodeOfChar(LowerChar(c)) - 87

(***************************************************************************)
(* Expressions (the AST) and the entries of the token stack.               *)
(***************************************************************************)
\* BasicExpression()
NewBasicExpression ==
  [kind |-> "BasicExpression", attribute |-> NoneStr, operator |-> NoneStr,
   args |-> <<>>, number_of_args |-> 1, bool_value |-> TRUE]

\* BinaryExpression(operator=string)
NewBinaryExpression(operator) ==
  [kind |-> "BinaryExpression", operator |-> operator, args |-> <<>>]

\* ContextExpression(attribute)
NewContextExpression(attribute) ==
  [kind |-> "ContextExpression", attribute |-> attribute, args |-> <<>>]

IdentityExpression == [kind |-> "IdentityExpression"]

BracketOpenEntry == [kind |-> "("]
BracketCloseEntry == [kind |-> ")"]

ExpressionKinds ==
  {"BasicExpression", "BinaryExpression", "ContextExpression",
   "IdentityExpression"}

\* isinstance(item, Expression)
IsExpression(item) == item.kind \in ExpressionKinds

(***************************************************************************)
(* The parser object.  A callback takes the parser p and the matched text  *)
(* and gives the parser after it, the state it returns ("None" for none)   *)
(* and the exception it raises ("None" for none).                          *)
(***************************************************************************)
NewParser(data) ==
  [buffer |-> data, current_expression |-> NewBasicExpression,
   filter_string |-> data, processed |-> 0, processed_buffer |-> <<>>,
   stack |-> <<>>, state |-> "INITIAL", state_stack |-> <<>>,
   string |-> NoneStr, flipped |-> "unset"]

Returns(p, ret) == [p |-> p, ret |-> ret, exc |-> "None"]
Raises(p, exc) == [p |-> p, ret |-> "None", exc |-> exc]

FlipAllowedOperators ==
  { <<"i", "s">>, <<"c", "o", "n", "t", "a", "i", "n", "s">>,
    <<"i", "n", "s", "e", "t">>, <<"e", "q", "u", "a", "l", "s">> }

\* Parser.FlipAllowed: the exception it raises, "None" when it returns
FlipAllowed(p) ==
  IF p.flipped = "unset" THEN "ParseError: Not defined"
  ELSE IF p.flipped = "False" THEN "None"
  ELSE IF p.current_expression.operator \notin {NoneStr, <<>>}
          /\ Lower(p.current_expression.operator) \notin FlipAllowedOperators
       THEN "ParseError: not does not work against operator"
       ELSE "None"

\* Parser.FlipLogic
FlipLogic(p) ==
  IF p.flipped = "True"
  THEN Raises(p, "ParseError: not can only be expressed once")
  ELSE IF p.current_expression.args # <<>>
  THEN Raises(p, "ParseError: not after an argument")
  ELSE LET q == [p EXCEPT !.flipped = "True"]
       IN  IF FlipAllowed(q) # "None" THEN Raises(q, FlipAllowed(q))
           ELSE Returns([q EXCEPT !.current_expression.bool_value =
                                    ~p.current_expression.bool_value], "None")

\* InsertArg without its call of FlipAllowed
InsertArgUnchecked(p, argument) ==
  LET e == [p.current_expression EXCEPT !.args = Append(@, argument)]
      q == [p EXCEPT !.current_expression = e]
  IN  IF Len(e.args) > e.number_of_args
      THEN Raises(q, "ParseError: Too many arguments")
      ELSE IF Len(e.args) = e.number_of_args
      THEN Returns([q EXCEPT !.stack = Append(@, e),
                             !.current_expression = NewBasicExpression],
                   "BINARY")
      ELSE Returns(q, "None")

\* Expression.AddArg and Parser.InsertArg
InsertArg(p, argument) ==
  IF FlipAllowed(p) # "None" THEN Raises(p, FlipAllowed(p))
  ELSE LET e == [p.current_expression EXCEPT !.args = Append(@, argument)]
           q == [p EXCEPT !.current_expression = e]
       IN  IF Len(e.args) > e.number_of_args
           THEN Raises(q, "ParseError: Too many arguments")
           ELSE IF Len(e.args) = e.number_of_args
           THEN Returns([q EXCEPT !.stack = Append(@, e),
                                  !.current_expression = NewBasicExpression],
                        "BINARY")
           ELSE Returns(q, "None")

\* StoreAttribute leaving the once-only flag as the last term left it
StoreAttributeKeepingFlipped(p, string) ==
  Returns([p EXCEPT !.flipped = IF @ = "unset" THEN "False" ELSE @,
                    !.current_expression.attribute = string], "OPERATOR")

\* Parser.StoreAttribute
StoreAttribute(p, string) ==
  Returns([p EXCEPT !.flipped = "False",
                    !.current_expression.attribute = string], "OPERATOR")

\* Parser.StoreOperator
StoreOperator(p, string) ==
  Returns([p EXCEPT !.current_expression.operator = string], "None")

\* Parser.PushState
PushState(p) == Returns([p EXCEPT !.state_stack = Append(@, p.state)], "None")

\* a PopState that reads the last entry and leaves it on the state stack
PopStateKeeping(p) ==
  IF p.state_stack = <<>>
  THEN Raises(p, "ParseError: Tried to pop the state but failed")
  ELSE LET s == p.state_stack[Len(p.state_stack)]
       IN  Returns([p EXCEPT !.state = s], s)

\* Parser.PopState
PopState(p) ==
  IF p.state_stack = <<>>
  THEN Raises(p, "ParseError: Tried to pop the state but failed")
  ELSE LET s == p.state_stack[Len(p.state_stack)]
       IN  Returns([p EXCEPT !.state = s,
                             !.state_stack = Take(@, Len(@) - 1)], s)

\* PushBack putting the match back twice
PushBackTwice(p, string) ==
  Returns([p EXCEPT !.buffer = string \o string \o @], "None")

\* a PushBack that leaves processed_buffer as it is
PushBackKeepingProcessed(p, string) ==
  Returns([p EXCEPT !.buffer = string \o @], "None")

\* Parser.PushBack
PushBack(p, string) ==
  Returns([p EXCEPT !.buffer = string \o @,
                    !.processed_buffer =
                      Take(@, IF Len(@) >= Len(string)
                              THEN Len(@) - Len(string) ELSE 0)], "None")

\* Parser.StringFinish
StringFinish(p) ==
  IF p.state = "ATTRIBUTE" THEN StoreAttribute(p, p.string)
  ELSE IF p.state = "ARG" THEN InsertArg(p, StrVal(p.string))
  ELSE Returns(p, "None")

\* Parser.HexEscape on the two characters after \x
HexEscape(p, hex_string) ==
  IF \E i \in 1..2 : hex_string[i] \notin HexDigitChars
  THEN Raises(p, "ParseError: Invalid hex escape")
  ELSE LET code == 16 * HexDigitVal(hex_string[1]) + HexDigitVal(hex_string[2])
       IN  IF code >= 128 THEN Raises(p, "UnicodeDecodeError")
           ELSE Returns([p EXCEPT !.string = @ \o <<CharOfCode(code)>>], "None")

EscapeChars == {"\\", "'", "\"", "r", "n", "b", "t", ".", "w", "s"}

\* codecs.decode(string, 'unicode_escape') of a backslash and the character c
UnicodeEscape(c) ==
  CASE c = "r" -> <<"\r">> [] c = "n" -> <<"\n">> [] c = "b" -> <<"<BS>">>
    [] c = "t" -> <<"\t">> [] c \in {"\\", "'", "\""} -> <<c>>
    [] OTHER -> <<"\\", c>>

\* Parser.StringEscape on the character after the backslash
StringEscape(p, c) ==
  IF c \in EscapeChars
  THEN Returns([p EXCEPT !.string = @ \o UnicodeEscape(c)], "None")
  ELSE Raises(p, "ParseError: Invalid escape character")

\* the callback named by an action of a token, applied to the matched text
Callback(action, p, string) ==
  CASE action = "ContextOperator" ->
         Returns([p EXCEPT !.stack =
                    Append(@, NewContextExpression(Drop(string, 1)))], "None")
    [] action = "BinaryOperator" ->
         Returns([p EXCEPT !.stack = Append(@, NewBinaryExpression(string))],
                 "None")
    [] action = "BracketOpen" ->
         Returns([p EXCEPT !.stack = Append(@, BracketOpenEntry)], "None")
    [] action = "BracketClose" ->
         Returns([p EXCEPT !.stack = Append(@, BracketCloseEntry)], "None")
    [] action = "PushState" -> PushState(p)
    [] action = "PopState" -> PopState(p)
    [] action = "PushBack" -> PushBack(p, string)
    [] action = "StoreAttribute" -> StoreAttribute(p, string)
    [] action = "StoreOperator" -> StoreOperator(p, string)
    [] action = "FlipLogic" -> FlipLogic(p)
    [] action = "InsertFloatArg" -> InsertArg(p, ParseFloat(string))
    [] action = "InsertInt16Arg" ->
         InsertArg(p, IntVal(ParseDigits(Drop(string, 2), 16)))
    [] action = "InsertIntArg" -> InsertArg(p, IntVal(ParseDigits(string, 10)))
    [] action = "StringStart" -> Returns([p EXCEPT !.string = <<>>], "None")
    [] action = "StringInsert" ->
         Returns([p EXCEPT !.string = @ \o string], "None")
    [] action = "StringFinish" -> StringFinish(p)
    [] action = "HexEscape" -> HexEscape(p, SubSeq(string, 3, 4))
    [] action = "StringEscape" -> StringEscape(p, string[2])

\* the loop over token.actions in NextToken, from the i-th action on; r holds
\* the parser, the next state so far and the exception raised
RECURSIVE RunActions(_, _, _, _)
RunActions(actions, i, string, r) ==
  IF i > Len(actions) \/ r.exc # "None" THEN r
  ELSE LET c == Callback(actions[i], r.p, string)
       IN  RunActions(actions, i + 1, string,
             [p |-> c.p,
              ret |-> IF c.ret # "None" THEN c.ret ELSE r.ret,
              exc |-> c.exc])

\* the index of the first token whose state_regex matches the state and whose
\* regex matches the buffer; 0 when there is none
FirstToken(p) ==
  LET ok == {i \in 1..Len(tokens) :
               /\ StateMatches(tokens[i].state_regex, p.state)
               /\ MatchLen(tokens[i].regex, p.buffer) > 0}
  IN  IF ok = {} THEN 0 ELSE Min(ok)

\* Parser.NextToken: the parser after the call and the exception raised
NextTokenResult(p) ==
  LET i == FirstToken(p) IN
  IF i = 0 THEN Raises(p, "ParseError: Expected state")
  ELSE LET token == tokens[i]
           n == MatchLen(token.regex, p.buffer)
           string == Take(p.buffer, n)
           consumed == [p EXCEPT !.processed_buffer = @ \o string,
                                 !.buffer = Drop(@, n),
                                 !.processed = @ + n]
           r == RunActions(token.actions, 1, string,
                           [p |-> consumed, ret |-> token.next_state,
                            exc |-> "None"])
       IN  IF r.exc # "None" THEN r
           ELSE Returns(IF r.ret # "None" THEN [r.p EXCEPT !.state = r.ret]
                        ELSE r.p, "None")

(***************************************************************************)
(* The reduction passes of Parser.Reduce.  An entry set to None by a pass  *)
(* is NoneEntry until the pass filters the stack.                          *)
(***************************************************************************)
NoneEntry == [kind |-> "None"]

\* list(filter(None, self.stack))
FilterNone(stack) == SelectSeq(stack, LAMBDA item : item.kind # "None")

\* the loop of Parser._CombineParenthesis from index i (counted from 1) on
RECURSIVE CombineParenthesisFrom(_, _)
CombineParenthesisFrom(stack, i) ==
  IF i > Len(stack) - 2 THEN stack
  ELSE IF /\ stack[i].kind = "("
          /\ stack[i + 2].kind = ")"
          /\ IsExpression(stack[i + 1])
       THEN CombineParenthesisFrom(
              [stack EXCEPT ![i] = NoneEntry, ![i + 2] = NoneEntry], i + 1)
       ELSE CombineParenthesisFrom(stack, i + 1)

\* Parser._CombineParenthesis
CombineParenthesis(stack) == FilterNone(CombineParenthesisFrom(stack, 1))

\* BinaryExpression.AddOperands
AddOperands(item, lhs, rhs) == [item EXCEPT !.args = <<lhs, rhs>>]

\* the loop of Parser._CombineBinaryExpressions from index i (from 1) on
RECURSIVE CombineBinaryExpressionsFrom(_, _, _)
CombineBinaryExpressionsFrom(stack, operator, i) ==
  IF i > Len(stack) - 1 THEN stack
  ELSE IF /\ stack[i].kind = "BinaryExpression"
          /\ Lower(stack[i].operator) = Lower(operator)
          /\ IsExpression(stack[i - 1])
          /\ IsExpression(stack[i + 1])
       THEN CombineBinaryExpressionsFrom(
              [stack EXCEPT ![i] = AddOperands(@, stack[i - 1], stack[i + 1]),
                            ![i - 1] = NoneEntry, ![i + 1] = NoneEntry],
              operator, i + 1)
       ELSE CombineBinaryExpressionsFrom(stack, operator, i + 1)

\* Parser._CombineBinaryExpressions
CombineBinaryExpressions(stack, operator) ==
  FilterNone(CombineBinaryExpressionsFrom(stack, operator, 2))

\* ContextExpression.SetExpression
SetExpression(item, expression) == [item EXCEPT !.args = <<expression>>]

\* the loop of Parser._CombineContext from index i (from 1) down to 2
RECURSIVE CombineContextFrom(_, _)
CombineContextFrom(stack, i) ==
  IF i < 2 THEN stack
  ELSE IF /\ stack[i - 1].kind = "ContextExpression"
          /\ IsExpression(stack[i])
       THEN CombineContextFrom(
              [stack EXCEPT ![i - 1] = SetExpression(@, stack[i]),
                            ![i] = NoneEntry], i - 1)
       ELSE CombineContextFrom(stack, i - 1)

\* Parser._CombineContext
CombineContext(stack) == FilterNone(CombineContextFrom(stack, Len(stack)))

\* one iteration of the while loop of Parser.Reduce
ReducePassResult(stack) ==
  CombineContext(
    CombineBinaryExpressions(
      CombineBinaryExpressions(CombineParenthesis(stack), <<"a", "n", "d">>),
      <<"o", "r">>))

(***************************************************************************)
(* The state: the fields of the Parser object, the position of the caller  *)
(* in Parse / Close / Reduce / Compile / Matches, and what they returned.  *)
(***************************************************************************)
VARIABLES
  query,               \* the input, as the lexemes filter_string is made of
  buffer, current_expression, filter_string, processed, processed_buffer,
  stack, state, state_stack, string, flipped,   \* Parser attributes
  pc,                  \* position: Parse, Close, Reduce, ReduceLoop,
                       \* ReduceEnd, Parsed, Raised, Compiled,
                       \* CompileRaised, Matched
  length,              \* the local variable of Reduce
  ast,                 \* the value Parse returned
  exception,           \* the exception that ended Parse or Compile
  tree,                \* the filter Compile returned
  obj, matches,        \* the last object given to Matches, and its result
  exp_expander,        \* the expander of a call of Expand
  exp_path,            \* the path given to it
  exp_result,          \* the values the call yielded, and its exception
  calls                \* the calls of Matches in progress on the shared filter

expand_vars == <<exp_expander, exp_path, exp_result>>

parser_vars ==
  <<buffer, current_expression, filter_string, processed, processed_buffer,
    stack, state, state_stack, string, flipped>>
vars ==
  <<query, parser_vars, pc, length, ast, exception, tree, obj, matches,
    expand_vars, calls>>

\* the callers that share one compiled filter, and a caller that is not in
\* a call of Matches
Callers == 1..MaxCallers
NoCall == [at |-> "idle", obj |-> [kind |-> "None"], child |-> 0, result |-> "None"]

\* the Parser object as a record, and the assignment of a record to it
Self ==
  [buffer |-> buffer, current_expression |-> current_expression,
   filter_string |-> filter_string, processed |-> processed,
   processed_buffer |-> processed_buffer, stack |-> stack, state |-> state,
   state_stack |-> state_stack, string |-> string, flipped |-> flipped]

SetSelf(p) ==
  /\ buffer' = p.buffer
  /\ current_expression' = p.current_expression
  /\ filter_string' = p.filter_string
  /\ processed' = p.processed
  /\ processed_buffer' = p.processed_buffer
  /\ stack' = p.stack
  /\ state' = p.state
  /\ state_stack' = p.state_stack
  /\ string' = p.string
  /\ flipped' = p.flipped

\* the state after Parser(data), before Parse is called
InitWith(q, data) ==
  /\ query = q
  /\ filter_string = data
  /\ buffer = filter_string
  /\ current_expression = NewBasicExpression
  /\ processed = 0
  /\ processed_buffer = <<>>
  /\ stack = <<>>
  /\ state = "INITIAL"
  /\ state_stack = <<>>
  /\ string = NoneStr
  /\ flipped = "unset"
  /\ pc = "Parse"
  /\ length = 0
  /\ ast = NoneEntry
  /\ exception = "None"
  /\ tree = NoneEntry
  /\ obj = NoneEntry
  /\ matches = "None"
  /\ exp_expander = "None"
  /\ exp_path = <<>>
  /\ exp_result = [vals |-> <<>>, exc |-> "None"]
  /\ calls = [caller \in Callers |-> NoCall]

\* Parser.Parse up to the call of Close
Parse ==
  /\ pc = "Parse"
  /\ IF filter_string = <<>>
     THEN pc' = "Parsed" /\ ast' = IdentityExpression
     ELSE pc' = "Close" /\ ast' = ast
  /\ UNCHANGED <<query, parser_vars, length, exception, tree, obj, matches, expand_vars,
                 calls>>

\* one iteration of the loop of Parser.Close: a call of NextToken
NextToken ==
  /\ pc = "Close"
  /\ LET r == NextTokenResult(Self) IN
     /\ SetSelf(r.p)
     /\ exception' = r.exc
     /\ pc' = IF r.exc # "None" THEN "Raised"
              ELSE IF r.p.buffer = <<>> THEN "Reduce" ELSE "Close"
  /\ UNCHANGED <<query, length, ast, tree, obj, matches, expand_vars, calls>>

\* Parser.Reduce going to its loop whatever the state is
ReduceUnchecked ==
  /\ pc = "Reduce"
  /\ pc' = "ReduceLoop"
  /\ length' = Len(stack)
  /\ UNCHANGED <<query, parser_vars, ast, exception, tree, obj, matches,
                 expand_vars, calls>>

\* Parser.Reduce up to its loop
Reduce ==
  /\ pc = "Reduce"
  /\ IF state # "INITIAL" /\ state # "BINARY"
     THEN /\ pc' = "Raised"
          /\ exception' = "ParseError: Premature end of expression"
          /\ length' = length
     ELSE /\ pc' = "ReduceLoop"
          /\ exception' = exception
          /\ length' = Len(stack)
  /\ UNCHANGED <<query, parser_vars, ast, tree, obj, matches, expand_vars,
                 calls>>

\* the while loop of Parser.Reduce: its test and one iteration
ReduceLoop ==
  /\ pc = "ReduceLoop"
  /\ IF length > 1
     THEN LET reduced == ReducePassResult(stack) IN
          /\ stack' = reduced
          /\ IF Len(reduced) = length
             THEN pc' = "ReduceEnd" /\ length' = length
             ELSE pc' = "ReduceLoop" /\ length' = Len(reduced)
     ELSE pc' = "ReduceEnd" /\ UNCHANGED <<stack, length>>
  /\ UNCHANGED <<query, buffer, current_expression, filter_string, processed,
                 processed_buffer, state, state_stack, string, flipped, ast,
                 exception, tree, obj, matches, expand_vars, calls>>

\* the end of a Reduce that returns stack[0] of every stack that has one
ReduceEndUnchecked ==
  /\ pc = "ReduceEnd"
  /\ IF stack = <<>>
     THEN /\ pc' = "Raised"
          /\ exception' = "ParseError: Illegal query expression"
          /\ ast' = ast
     ELSE /\ pc' = "Parsed"
          /\ exception' = exception
          /\ ast' = stack[1]
  /\ UNCHANGED <<query, parser_vars, length, tree, obj, matches, expand_vars,
                 calls>>

\* the end of Parser.Reduce: the check of the length and the return
ReduceEnd ==
  /\ pc = "ReduceEnd"
  /\ IF length # 1
     THEN /\ pc' = "Raised"
          /\ exception' = "ParseError: Illegal query expression"
          /\ ast' = ast
     ELSE /\ pc' = "Parsed"
          /\ exception' = exception
          /\ ast' = stack[1]
  /\ UNCHANGED <<query, parser_vars, length, tree, obj, matches, expand_vars,
                 calls>>

(***************************************************************************)
(* Candidate objects and their values: integers, floats, text, lists,      *)
(* dictionaries and objects with data attributes.  An object or dictionary *)
(* is a function from AttrNames; Absent stands for a missing member and    *)
(* for None.                                                               *)
(***************************************************************************)
AttrNameSeq == << <<"a">>, <<"b">>, <<"c">> >>
AttrNames == {AttrNameSeq[i] : i \in 1..Len(AttrNameSeq)}

Absent == [t |-> "none"]
ListVal(items) == [t |-> "list", v |-> items]
ObjVal(members) == [t |-> "obj", v |-> members]
DictVal(members) == [t |-> "dict", v |-> members]

IsNumber(x) == x.t \in {"int", "float"}
Numerator(x) == IF x.t = "int" THEN x.v ELSE x.n
Scale(x) == IF x.t = "int" THEN 0 ELSE x.s

RECURSIVE Pow10(_)
Pow10(k) == IF k = 0 THEN 1 ELSE 10 * Pow10(k - 1)

\* x < y and x == y on two numbers
NumLess(x, y) == Numerator(x) * Pow10(Scale(y)) < Numerator(y) * Pow10(Scale(x))
NumEqual(x, y) == Numerator(x) * Pow10(Scale(y)) = Numerator(y) * Pow10(Scale(x))

\* s < t on two texts: the order of the code points
RECURSIVE TextLess(_, _)
TextLess(s, t) ==
  IF t = <<>> THEN FALSE
  ELSE IF s = <<>> THEN TRUE
  ELSE IF s[1] = t[1] THEN TextLess(Tail(s), Tail(t))
  ELSE CodeOfChar(s[1]) < CodeOfChar(t[1])

\* Python's x == y
RECURSIVE PyEqual(_, _)
PyEqual(x, y) ==
  IF IsNumber(x) /\ IsNumber(y) THEN NumEqual(x, y)
  ELSE IF x.t # y.t THEN FALSE
  ELSE IF x.t = "list"
       THEN /\ Len(x.v) = Len(y.v)
            /\ \A i \in 1..Len(x.v) : PyEqual(x.v[i], y.v[i])
       ELSE x = y

\* sub in text
IsSubstring(sub, text) ==
  \E i \in 0..(Len(text) - Len(sub)) : SubSeq(text, i + 1, i + Len(sub)) = sub

\* the keys of a dictionary, in the order of AttrNameSeq
DictKeys(d) ==
  LET present == SelectSeq(AttrNameSeq, LAMBDA n : d.v[n] # Absent)
  IN  [i \in 1..Len(present) |-> StrVal(present[i])]

\* iter(x): whether x can be iterated, and the items it gives
Iterate(x) ==
  CASE x.t = "list" -> [ok |-> TRUE, items |-> x.v]
    [] x.t = "str" ->
         [ok |-> TRUE, items |-> [i \in 1..Len(x.v) |-> StrVal(<<x.v[i]>>)]]
    [] x.t = "dict" -> [ok |-> TRUE, items |-> DictKeys(x)]
    [] OTHER -> [ok |-> FALSE, items |-> <<>>]

\* '{0:d}'.format(n) for n >= 0
RECURSIVE IntToStr(_)
IntToStr(n) ==
  IF n < 10 THEN <<DigitSeq[n + 1]>>
  ELSE IntToStr(n \div 10) \o <<DigitSeq[(n % 10) + 1]>>

\* GetUnicodeString: the text, or the TypeError of codecs.decode
RECURSIVE GetUnicodeString(_)
GetUnicodeString(value) ==
  CASE value.t = "list" ->
         LET parts == [i \in 1..Len(value.v) |-> GetUnicodeString(value.v[i])]
             Join[i \in 0..Len(parts)] ==
               IF i = 0 THEN <<>> ELSE Join[i - 1] \o parts[i].v
         IN  IF \E i \in 1..Len(parts) : parts[i].exc # "None"
             THEN [v |-> <<>>, exc |-> "TypeError"]
             ELSE [v |-> Join[Len(parts)], exc |-> "None"]
    [] value.t = "int" -> [v |-> IntToStr(value.v), exc |-> "None"]
    [] value.t = "str" -> [v |-> value.v, exc |-> "None"]
    [] OTHER -> [v |-> <<>>, exc |-> "TypeError"]

(***************************************************************************)
(* Regular expressions of Regexp: the patterns modelled are sequences of   *)
(* literal characters and of "." (any character, re.DOTALL).               *)
(***************************************************************************)
RegexLiteralChars ==
  Digits \cup LowerLetters \cup UpperLetters \cup {" ", "_", "-", "@", "'", "\"",
                                                   "<", ">", "!", "=", "&"}

\* re.compile raises re.error: an unterminated character set
RegexMalformed(pattern) == \E i \in 1..Len(pattern) : pattern[i] = "["

RegexModelled(pattern) ==
  \A i \in 1..Len(pattern) : pattern[i] \in RegexLiteralChars \cup {"."}

\* compiled_re.search(text)
RegexSearch(pattern, ignore_case, text) ==
  \E i \in 0..(Len(text) - Len(pattern)) :
    \A j \in 1..Len(pattern) :
      \/ pattern[j] = "."
      \/ IF ignore_case THEN LowerChar(pattern[j]) = LowerChar(text[i + j])
         ELSE pattern[j] = text[i + j]

(***************************************************************************)
(* ValueExpander.Expand.  The result is the sequence of the values yielded *)
(* and the exception that ended the generator ("None" for none).           *)
(***************************************************************************)
\* path.split('.')
RECURSIVE Split(_)
Split(path) ==
  LET n == Span(path, Alphabet \ {"."})
  IN  IF n = Len(path) THEN <<path>>
      ELSE <<Take(path, n)>> \o Split(Drop(path, n + 1))

\* _GetAttributeName of the expander
GetAttributeName(expander, path) ==
  IF expander = "LowercaseAttributeValueExpander" THEN Lower(path[1])
  ELSE path[1]

\* _GetValue of the expander: getattr(obj, attr_name, None), or
\* obj.get(attr_name, None) which only a dictionary has
GetValue(expander, o, attr_name) ==
  IF expander = "DictValueExpander"
  THEN IF o.t = "dict"
       THEN [v |-> IF attr_name \in DOMAIN o.v THEN o.v[attr_name] ELSE Absent,
             exc |-> "None"]
       ELSE [v |-> Absent, exc |-> "AttributeError"]
  ELSE [v |-> IF o.t = "obj" /\ attr_name \in DOMAIN o.v
              THEN o.v[attr_name] ELSE Absent,
        exc |-> "None"]

RECURSIVE Expand(_, _, _)
RECURSIVE ExpandEach(_, _, _, _)

\* the loop of _AtNonLeaf over the items of an iterable, from the i-th on
ExpandEach(expander, items, path, i) ==
  IF i > Len(items) THEN [vals |-> <<>>, exc |-> "None"]
  ELSE LET first == Expand(expander, items[i], path)
       IN  IF first.exc # "None" THEN first
           ELSE LET rest == ExpandEach(expander, items, path, i + 1)
                IN  [vals |-> first.vals \o rest.vals, exc |-> rest.exc]

\* ValueExpander.Expand on a path already split
Expand(expander, o, path) ==
  LET got == GetValue(expander, o, GetAttributeName(expander, path))
      attr_value == got.v
  IN  IF got.exc # "None" THEN [vals |-> <<>>, exc |-> got.exc]
      ELSE IF attr_value = Absent THEN [vals |-> <<>>, exc |-> "None"]
      ELSE IF Len(path) = 1 THEN [vals |-> <<attr_value>>, exc |-> "None"]
      ELSE IF attr_value.t = "dict"               \* _AtNonLeaf
           THEN [vals |-> <<attr_value>>, exc |-> "None"]
      ELSE IF Iterate(attr_value).ok
           THEN ExpandEach(expander, Iterate(attr_value).items, Tail(path), 1)
           ELSE Expand(expander, attr_value, Tail(path))

(***************************************************************************)
(* The operators.  Operation gives "True", "False" or the exception the    *)
(* predicate raises.                                                       *)
(***************************************************************************)
Bool(b) == IF b THEN "True" ELSE "False"

\* x < y, x <= y, x > y, x >= y of Less, LessEqual, Greater, GreaterEqual
Ordering(kind, x, y) ==
  LET less == IF IsNumber(x) THEN NumLess(x, y) ELSE TextLess(x.v, y.v)
      equal == IF IsNumber(x) THEN NumEqual(x, y) ELSE x.v = y.v
  IN  IF ~((IsNumber(x) /\ IsNumber(y)) \/ (x.t = "str" /\ y.t = "str"))
      THEN "TypeError"
      ELSE CASE kind = "Less" -> Bool(less)
             [] kind = "LessEqual" -> Bool(less \/ equal)
             [] kind = "Greater" -> Bool(~less /\ ~equal)
             [] kind = "GreaterEqual" -> Bool(~less)

\* y in x
PyIn(y, x) ==
  CASE x.t = "str" ->
         IF y.t = "str" THEN Bool(IsSubstring(y.v, x.v)) ELSE "TypeError"
    [] x.t = "list" -> Bool(\E i \in 1..Len(x.v) : PyEqual(x.v[i], y))
    [] x.t = "dict" ->
         Bool(\E i \in 1..Len(DictKeys(x)) : PyEqual(DictKeys(x)[i], y))
    [] OTHER -> "TypeError"

\* Contains.Operation
ContainsOperation(x, y) ==
  IF x.t = "str"
  THEN IF y.t = "str" THEN Bool(IsSubstring(Lower(y.v), Lower(x.v)))
       ELSE "AttributeError"                    \* y.lower()
  ELSE PyIn(y, x)

\* InSet.Operation
InSetOperation(x, y) ==
  LET direct == PyIn(x, y) IN
  IF direct # "False" THEN direct
  ELSE IF x.t = "str" THEN "False"
  ELSE IF ~Iterate(x).ok THEN "False"
  ELSE LET items == Iterate(x).items
           each == [i \in 1..Len(items) |-> PyIn(items[i], y)]
           stop == {i \in 1..Len(items) : each[i] # "True"}
       IN  IF stop = {} THEN "True"
           ELSE IF each[Min(stop)] = "False" THEN "False"
           ELSE "False"                         \* except TypeError

\* Regexp.Operation
RegexpOperation(node, x) ==
  LET text == GetUnicodeString(x)
  IN  IF text.exc # "None" THEN "False"         \* except TypeError
      ELSE Bool(RegexSearch(node.pattern, node.kind = "RegexpInsensitive",
                            text.v))

\* self.Operation(x, self.right_operand) of the operator node
Operation(node, x) ==
  LET y == node.right_operand IN
  CASE node.kind \in {"Equals", "NotEquals"} -> Bool(PyEqual(x, y))
    [] node.kind \in {"Less", "LessEqual", "Greater", "GreaterEqual"} ->
         Ordering(node.kind, x, y)
    [] node.kind = "Contains" -> ContainsOperation(x, y)
    [] node.kind = "InSet" -> InSetOperation(x, y)
    [] node.kind \in {"Regexp", "RegexpInsensitive"} -> RegexpOperation(node, x)

\* GenericBinaryOperator.Operate from the i-th value on
RECURSIVE Operate(_, _, _)
Operate(node, values, i) ==
  IF i > Len(values) THEN "False"
  ELSE LET r == Operation(node, values[i])
       IN  IF r = "True" THEN "True"
           ELSE IF r \in {"False", "TypeError", "ValueError"}
           THEN Operate(node, values, i + 1)
           ELSE r

\* GenericBinaryOperator.Matches
OperatorMatches(node, o) ==
  LET values == Expand(node.value_expander, o, Split(node.left_operand))
  IN  IF values.exc # "None" THEN values.exc
      ELSE LET r == IF values.vals # <<>> THEN Operate(node, values.vals, 1)
                    ELSE "False"
           IN  IF r = "True" THEN Bool(node.bool_value)
               ELSE IF r = "False" THEN Bool(~node.bool_value)
               ELSE r

OperatorKinds ==
  {"Equals", "NotEquals", "Less", "LessEqual", "Greater", "GreaterEqual",
   "Contains", "InSet", "Regexp", "RegexpInsensitive"}

RECURSIVE Matches(_, _)
RECURSIVE AndMatches(_, _, _)
RECURSIVE OrMatches(_, _, _)
RECURSIVE ContextInner(_, _, _)
RECURSIVE ContextOuter(_, _, _)

\* AndFilter.Matches asking every child before it answers
AndMatchesEager(node, o, i) ==
  LET results == [j \in 1..Len(node.args) |-> Matches(node.args[j], o)]
      raised == {j \in i..Len(node.args) : results[j] \notin {"True", "False"}}
  IN  IF raised # {} THEN results[Min(raised)]
      ELSE Bool(\A j \in i..Len(node.args) : results[j] = "True")

\* the loop of AndFilter.Matches from the i-th child on
AndMatches(node, o, i) ==
  IF i > Len(node.args) THEN "True"
  ELSE LET r == Matches(node.args[i], o)
       IN  IF r = "True" THEN AndMatches(node, o, i + 1) ELSE r

\* the loop of OrFilter.Matches from the i-th child on
OrMatches(node, o, i) ==
  IF i > Len(node.args) THEN "False"
  ELSE LET r == Matches(node.args[i], o)
       IN  IF r = "False" THEN OrMatches(node, o, i + 1) ELSE r

\* the inner loop of Context.Matches leaving at its first item
ContextInnerFirstOnly(node, items, i) ==
  IF i > Len(items) THEN "False" ELSE Matches(node.condition, items[i])

\* the inner loop of Context.Matches over the items of one expanded value
ContextInner(node, items, i) ==
  IF i > Len(items) THEN "False"
  ELSE LET r == Matches(node.condition, items[i])
       IN  IF r = "False" THEN ContextInner(node, items, i + 1) ELSE r

\* the outer loop of Context.Matches over the expanded values
ContextOuter(node, expanded, i) ==
  IF i > Len(expanded.vals)
  THEN (IF expanded.exc # "None" THEN expanded.exc ELSE "False")
  ELSE IF ~Iterate(expanded.vals[i]).ok THEN "TypeError"
  ELSE LET r == ContextInner(node, Iterate(expanded.vals[i]).items, 1)
       IN  IF r = "False" THEN ContextOuter(node, expanded, i + 1) ELSE r

\* Filter.Matches of every node of the evaluation tree
Matches(node, o) ==
  CASE node.kind = "IdentityFilter" -> "True"
    [] node.kind = "AndFilter" -> AndMatches(node, o, 1)
    [] node.kind = "OrFilter" ->
         IF node.args = <<>> THEN "True" ELSE OrMatches(node, o, 1)
    [] node.kind = "Context" ->
         ContextOuter(node,
                      Expand(node.value_expander, o, Split(node.context)), 1)
    [] node.kind \in OperatorKinds -> OperatorMatches(node, o)

(***************************************************************************)
(* Compile: from an expression to a node of the evaluation tree, with the  *)
(* exception raised instead ("None" when it returns).                      *)
(***************************************************************************)
\* BaseFilterImplementation.OPS
OPS ==
  << [name |-> <<"e", "q", "u", "a", "l", "s">>, cls |-> "Equals"],
     [name |-> <<"i", "s">>, cls |-> "Equals"],
     [name |-> <<"=", "=">>, cls |-> "Equals"],
     [name |-> <<"!", "=">>, cls |-> "NotEquals"],
     [name |-> <<"c", "o", "n", "t", "a", "i", "n", "s">>, cls |-> "Contains"],
     [name |-> <<">">>, cls |-> "Greater"],
     [name |-> <<">", "=">>, cls |-> "GreaterEqual"],
     [name |-> <<"<">>, cls |-> "Less"],
     [name |-> <<"<", "=">>, cls |-> "LessEqual"],
     [name |-> <<"i", "n", "s", "e", "t">>, cls |-> "InSet"],
     [name |-> <<"r", "e", "g", "e", "x", "p">>, cls |-> "Regexp"],
     [name |-> <<"i", "r", "e", "g", "e", "x", "p">>,
      cls |-> "RegexpInsensitive"] >>

\* filter_implementation.OPS.get(op_str, None)
OpsGet(op_str) ==
  LET found == {i \in 1..Len(OPS) : OPS[i].name = op_str}
  IN  IF found = {} THEN "None" ELSE OPS[Min(found)].cls

\* BaseFilterImplementation.FILTERS['ValueExpander']
ValueExpanderOf(filter_implementation) ==
  CASE filter_implementation = "BaseFilterImplementation" ->
         "AttributeValueExpander"
    [] filter_implementation = "LowercaseAttributeFilterImp" ->
         "LowercaseAttributeValueExpander"
    [] filter_implementation = "DictFilterImplementation" ->
         "DictValueExpander"

Compiled(node) == [f |-> node, exc |-> "None"]
CompileRaises(exc) == [f |-> NoneEntry, exc |-> exc]

\* the operator built without compiling the pattern
NewOperatorUncompiled(cls, arguments, expander) ==
  IF Len(arguments) # 2 THEN CompileRaises("InvalidNumberOfOperands")
  ELSE Compiled([kind |-> cls, left_operand |-> arguments[1],
                 right_operand |-> arguments[2],
                 bool_value |-> (cls # "NotEquals"),
                 value_expander |-> expander,
                 pattern |-> IF arguments[2].t = "str" THEN arguments[2].v
                             ELSE NoneStr])

\* the constructor of an operator class: BinaryOperator.__init__,
\* GenericBinaryOperator.__init__, NotEquals.__init__ and Regexp.__init__
NewOperator(cls, arguments, expander) ==
  IF Len(arguments) # 2 THEN CompileRaises("InvalidNumberOfOperands")
  ELSE LET node == [kind |-> cls, left_operand |-> arguments[1],
                    right_operand |-> arguments[2],
                    bool_value |-> (cls # "NotEquals"),
                    value_expander |-> expander, pattern |-> NoneStr]
           text == GetUnicodeString(arguments[2])
       IN  IF cls \notin {"Regexp", "RegexpInsensitive"} THEN Compiled(node)
           ELSE IF text.exc # "None" THEN CompileRaises(text.exc)
           ELSE IF RegexMalformed(text.v) THEN CompileRaises("ValueError")
           ELSE IF ~RegexModelled(text.v) THEN CompileRaises("NotModelled")
           ELSE Compiled([node EXCEPT !.pattern = text.v])

\* GenericBinaryOperator.FlipBool
FlipBool(node) == [node EXCEPT !.bool_value = ~@]

\* BasicExpression.Compile
BasicCompile(e, filter_implementation) ==
  IF e.operator = NoneStr THEN CompileRaises("AttributeError")
  ELSE LET operator == OpsGet(Lower(e.operator))
           ops == NewOperator(operator, <<e.attribute>> \o e.args,
                              ValueExpanderOf(filter_implementation))
       IN  IF operator = "None" THEN CompileRaises("ParseError: Unknown operator")
           ELSE IF ops.exc # "None" THEN ops
           ELSE IF ~e.bool_value THEN Compiled(FlipBool(ops.f))
           ELSE ops

RECURSIVE Compile(_, _)

\* [x.Compile(filter_implementation) for x in self.args]
CompileArgs(args, filter_implementation) ==
  LET each == [i \in 1..Len(args) |-> Compile(args[i], filter_implementation)]
      bad == {i \in 1..Len(args) : each[i].exc # "None"}
  IN  IF bad = {} THEN [fs |-> [i \in 1..Len(args) |-> each[i].f],
                        exc |-> "None"]
      ELSE [fs |-> <<>>, exc |-> each[Min(bad)].exc]

\* BinaryExpression.Compile
BinaryCompile(e, filter_implementation) ==
  LET operator == Lower(e.operator)
      method == IF operator \in {<<"a", "n", "d">>, <<"&", "&">>}
                THEN "AndFilter"
                ELSE IF operator \in {<<"o", "r">>, <<"|", "|">>}
                THEN "OrFilter" ELSE "None"
      args == CompileArgs(e.args, filter_implementation)
  IN  IF method = "None" THEN CompileRaises("ParseError: Invalid binary operator")
      ELSE IF args.exc # "None" THEN CompileRaises(args.exc)
      ELSE Compiled([kind |-> method, args |-> args.fs])

\* ContextExpression.Compile and Context.__init__
ContextCompile(e, filter_implementation) ==
  LET args == CompileArgs(e.args, filter_implementation)
  IN  IF args.exc # "None" THEN CompileRaises(args.exc)
      ELSE IF Len(args.fs) # 1 THEN CompileRaises("InvalidNumberOfOperands")
      ELSE Compiled([kind |-> "Context", context |-> e.attribute,
                     condition |-> args.fs[1],
                     value_expander |-> ValueExpanderOf(filter_implementation)])

\* whether the filter implementation has the attribute IdentityFilter:
\* BaseFilterImplementation holds the class under FILTERS['IdentityFilter']
\* only
HasIdentityFilter(filter_implementation) == FALSE

\* IdentityExpression.Compile
IdentityCompile(filter_implementation) ==
  IF HasIdentityFilter(filter_implementation)
  THEN Compiled([kind |-> "IdentityFilter"])
  ELSE CompileRaises("AttributeError")

\* Compile of the value Parse returned; a bracket has no Compile
Compile(e, filter_implementation) ==
  CASE e.kind = "IdentityExpression" -> IdentityCompile(filter_implementation)
    [] e.kind = "BasicExpression" -> BasicCompile(e, filter_implementation)
    [] e.kind = "BinaryExpression" -> BinaryCompile(e, filter_implementation)
    [] e.kind = "ContextExpression" -> ContextCompile(e, filter_implementation)
    [] OTHER -> CompileRaises("AttributeError")

(***************************************************************************)
(* Parse as one function of the text: Close and Reduce run to their end.   *)
(***************************************************************************)
\* Parser.Close
RECURSIVE CloseResult(_)
CloseResult(p) ==
  LET r == NextTokenResult(p)
  IN  IF r.exc # "None" \/ r.p.buffer = <<>> THEN r ELSE CloseResult(r.p)

\* the while loop of Parser.Reduce, with length its local variable
RECURSIVE ReduceLoopResult(_, _)
ReduceLoopResult(stk, len) ==
  IF len > 1
  THEN LET reduced == ReducePassResult(stk)
       IN  IF Len(reduced) = len THEN [stack |-> reduced, length |-> len]
           ELSE ReduceLoopResult(reduced, Len(reduced))
  ELSE [stack |-> stk, length |-> len]

\* Parser.Reduce
ReduceResult(p) ==
  IF p.state # "INITIAL" /\ p.state # "BINARY"
  THEN [ast |-> NoneEntry, exc |-> "ParseError: Premature end of expression"]
  ELSE LET r == ReduceLoopResult(p.stack, Len(p.stack))
       IN  IF r.length # 1
           THEN [ast |-> NoneEntry,
                 exc |-> "ParseError: Illegal query expression"]
           ELSE [ast |-> r.stack[1], exc |-> "None"]

\* Parser(data).Parse()
ParseResult(data) ==
  IF data = <<>> THEN [ast |-> IdentityExpression, exc |-> "None"]
  ELSE LET closed == CloseResult(NewParser(data))
       IN  IF closed.exc # "None" THEN [ast |-> NoneEntry, exc |-> closed.exc]
           ELSE ReduceResult(closed.p)

(***************************************************************************)
(* The queries.  A query is a sequence of lexemes; its text is the lexemes *)
(* joined by single spaces.  The lexeme "T" is a term `x is 1` whose       *)
(* attribute x is the letter of its position among the terms of the query. *)
(***************************************************************************)
LexemeChars(l) ==
  CASE l = "and" -> <<"a", "n", "d">>
    [] l = "or" -> <<"o", "r">>
    [] l = "AND" -> <<"A", "N", "D">>
    [] l = "&&" -> <<"&", "&">>
    [] l = "||" -> <<"|", "|">>
    [] l = "@c" -> <<"@", "c">>
    [] l = "c.a" -> <<"c", ".", "a">>
    [] l = "not" -> <<"n", "o", "t">>
    [] l = "NOT" -> <<"N", "O", "T">>
    [] l = "is" -> <<"i", "s">>
    [] l = "IS" -> <<"I", "S">>
    [] l = "equals" -> <<"e", "q", "u", "a", "l", "s">>
    [] l = "contains" -> <<"c", "o", "n", "t", "a", "i", "n", "s">>
    [] l = "Contains" -> <<"C", "o", "n", "t", "a", "i", "n", "s">>
    [] l = "inset" -> <<"i", "n", "s", "e", "t">>
    [] l = "regexp" -> <<"r", "e", "g", "e", "x", "p">>
    [] l = "iregexp" -> <<"i", "r", "e", "g", "e", "x", "p">>
    [] l = "==" -> <<"=", "=">>
    [] l = "!=" -> <<"!", "=">>
    [] l = ">=" -> <<">", "=">>
    [] l = "<=" -> <<"<", "=">>
    [] l = "1.5" -> <<"1", ".", "5">>
    [] l = "0x10" -> <<"0", "x", "1", "0">>
    [] l = "0x1" -> <<"0", "x", "1">>
    [] l = "0x9" -> <<"0", "x", "9">>
    [] l = "0xa" -> <<"0", "x", "a">>
    [] l = "0x1f" -> <<"0", "x", "1", "f">>
    [] l = "0xff" -> <<"0", "x", "f", "f">>
    [] l = "\"x" -> <<"\"", "x">>
    [] l = "'x" -> <<"'", "x">>
    [] l = "\"[\"" -> <<"\"", "[", "\"">>
    [] l = "Is" -> <<"I", "s">>
    [] l = "foo" -> <<"f", "o", "o">>
    [] l = "\"x\"" -> <<"\"", "x", "\"">>
    [] l = "'x'" -> <<"'", "x", "'">>
    [] OTHER -> <<l>>              \* a lexeme of one character

\* the text of a query from its i-th lexeme on; k terms came before
RECURSIVE RenderFrom(_, _, _)
RenderFrom(q, i, k) ==
  IF i > Len(q) THEN <<>>
  ELSE (IF i > 1 THEN <<" ">> ELSE <<>>)
       \o (IF q[i] = "T" THEN <<LowerSeq[k + 1], " ", "i", "s", " ", "1">>
           ELSE LexemeChars(q[i]))
       \o RenderFrom(q, i + 1, IF q[i] = "T" THEN k + 1 ELSE k)

Render(q) == RenderFrom(q, 1, 0)

\* terms, bracketed groups and context groups joined by binary operators
GrammarItems ==
  { <<"T">>, <<"(", "T", ")">>, <<"(", "T", "and", "T", ")">>,
    <<"(", "T", "or", "T", ")">>, <<"@c", "(", "T", ")">> }
BinaryLexemes == {"and", "or"}

RECURSIVE GrammarQueries(_)
GrammarQueries(n) ==
  IF n = 1 THEN GrammarItems
  ELSE {q \o <<op>> \o item :
          q \in GrammarQueries(n - 1), op \in BinaryLexemes,
          item \in GrammarItems}

\* every sequence of a few lexemes, well formed or not
RawLexemes == {"T", "and", "(", ")", "@c"}
RawQueries == UNION {[1..n -> RawLexemes] : n \in 1..MaxRaw}

\* one term, with `not` before the operator, after it, both or neither
OperatorLexemes ==
  {"is", "equals", "==", "!=", "contains", ">", ">=", "<", "<=", "inset",
   "regexp", "iregexp"}
NotLexemes == {<<>>, <<"not">>, <<"NOT">>}
LiteralLexemes == {"1", "1.5", "\"x\""}
NotQueries ==
  {<<"a">> \o before \o <<op>> \o after \o <<lit>> :
     before \in NotLexemes, after \in NotLexemes,
     op \in OperatorLexemes \cup {"IS", "Contains"},
     lit \in LiteralLexemes \cup {"'x'"}}

\* two terms joined by each spelling of the binary operators
SymbolQueries == {<<"T", op, "T">> : op \in {"and", "or", "AND", "&&", "||"}}

\* queries with something after the closing bracket of a group or with terms
\* side by side, terms with quoted arguments, closed or not, and one or two
\* terms that each carry no `not`, one or two before the operator, after it,
\* and after the argument
TailQueries ==
  LET Nots == {<<>>, <<"not">>, <<"not", "not">>}
      NotTerm(attribute) ==
        {<<attribute>> \o before \o <<"is">> \o after \o <<"1">> \o last :
           before \in Nots, after \in Nots, last \in {<<>>, <<"not">>}}
  IN  { <<"@c", "(", "T", ")", "and">>,
        <<"(", "@c", "(", "T", ")", "and", ")", "or", "T">>,
        <<"T", "(", "T", "and", "T", ")", "T">>,
        <<"@c", "(", "T", ")", "(", "T", ")">>,
        <<"@c", "(", "T", ")", "@c", "(", "T", ")">>,
        <<"T", "and", "@c", "(", "T", ")">>,
        <<"@c", "(", "T", "and", "T", ")", "T">>,
        <<"T", "T", "and", "T", "and">>,
        <<"a", "is", "\"x\"", "b", "is", "'x'">>,
        <<"(", "a", "is", "'x'", ")", "and", "b", "is", "\"x\"">>,
        <<")", "a", "is", "\"x\"", "b">>,
        <<"a", "is", "\"x\"", "and", "b", "is", "\"x">>,
        <<"a", "is", "'x">> }
      \cup NotTerm("a")
      \cup {first \o <<op>> \o second :
              first \in NotTerm("a"), op \in BinaryLexemes,
              second \in NotTerm("b")}

ParseQueries ==
  {<<>>} \cup UNION {GrammarQueries(n) : n \in 1..MaxItems} \cup RawQueries
         \cup SymbolQueries

\* the comparisons of a path with a literal, and the context groups
CompareQueries ==
  {<<path>> \o neg \o <<op>> \o <<lit>> :
     path \in {"a", "c.a"}, neg \in {<<>>, <<"not">>},
     op \in OperatorLexemes, lit \in LiteralLexemes}
ContextQueries ==
  { <<"@c", "(", "a", "is", "1", ")">>,
    <<"@c", "(", "a", "is", "1", "and", "b", "is", "2", ")">>,
    <<"@c", "(", "a", "is", "1", "or", "b", "is", "2", ")">>,
    <<"@c", "(", "b", "is", "2", "and", "a", "is", "1", ")">> }
\* single terms: cut short, with a hexadecimal or an unquoted argument, with
\* an operator in other letters or unknown, with a malformed pattern
TermQueries ==
  { <<"a">>, <<"a", "is">>, <<"a", "not">>, <<"a", "is", "not">>, <<"@c">>,
    <<"a", "is", "\"x">>, <<"a", "is", "'x">>,
    <<"T", "and", "b">>, <<"(", "a", "is">>, <<"@c", "(", "a">> }
  \cup {<<"a", "is", hex>> : hex \in {"0x1", "0x9", "0x10", "0xa", "0x1f", "0xff"}}
  \cup {<<"(", "a", "is", "x", ")", "and", "(", "b", ">=", "2", ")">>}
  \cup {<<"a", op, "1">> : op \in {"IS", "Is", "foo", "Contains"}}
  \cup {<<"a", op, "\"[\"">> : op \in {"regexp", "iregexp", "is"}}

MatchQueries ==
  {<<>>} \cup CompareQueries \cup ContextQueries \cup TermQueries

(***************************************************************************)
(* The candidate objects given to Matches.                                 *)
(***************************************************************************)
Scalars ==
  {IntVal(1), IntVal(2), FloatVal(15, 1), StrVal(<<"x">>),
   StrVal(<<"a", "X">>)}
ListItems == {IntVal(1), StrVal(<<"x">>)}
Lists == {ListVal(items) : items \in UNION {[1..n -> ListItems] : n \in 0..MaxList}}
Leaves == Scalars \cup Lists

Object(a, b, c) ==
  ObjVal([n \in AttrNames |->
            CASE n = <<"a">> -> a [] n = <<"b">> -> b [] n = <<"c">> -> c])

\* the elements of a list-valued attribute
Siblings ==
  {Object(a, b, Absent) :
     a \in {Absent, IntVal(1), StrVal(<<"x">>), ListVal(<<IntVal(1)>>)},
     b \in {Absent, IntVal(2)}}
SiblingLists ==
  {ListVal(items) : items \in UNION {[1..n -> Siblings] : n \in 0..MaxList}}

Objects ==
  {Object(a, b, Absent) : a \in Leaves \cup {Absent}, b \in {Absent, IntVal(2)}}
  \cup {Object(Absent, Absent, c) : c \in SiblingLists}
  \cup {Object(Absent, Absent, c) :
          c \in {IntVal(1), Object(IntVal(1), Absent, Absent)}}

(***************************************************************************)
(* Compile and Matches as steps, and the specifications.                   *)
(***************************************************************************)
\* expression.Compile(BaseFilterImplementation)
DoCompile ==
  /\ pc = "Parsed"
  /\ LET r == Compile(ast, "BaseFilterImplementation") IN
     /\ tree' = r.f
     /\ exception' = r.exc
     /\ pc' = IF r.exc # "None" THEN "CompileRaised" ELSE "Compiled"
  /\ UNCHANGED <<query, parser_vars, length, ast, obj, matches, expand_vars,
                 calls>>

\* tree.Matches(o) on one candidate object
DoMatches ==
  /\ pc = "Compiled"
  /\ \E o \in Objects :
       /\ obj' = o
       /\ matches' = Matches(tree, o)
  /\ pc' = "Matched"
  /\ UNCHANGED <<query, parser_vars, length, ast, exception, tree,
                 expand_vars, calls>>

\* the state before a call on a filter or an expander built by the caller:
\* no query is parsed
InitCall(position, filter, object, value_expander, path) ==
  /\ query = <<>>
  /\ filter_string = <<>>
  /\ buffer = <<>>
  /\ current_expression = NewBasicExpression
  /\ processed = 0
  /\ processed_buffer = <<>>
  /\ stack = <<>>
  /\ state = "INITIAL"
  /\ state_stack = <<>>
  /\ string = NoneStr
  /\ flipped = "unset"
  /\ pc = position
  /\ length = 0
  /\ ast = NoneEntry
  /\ exception = "None"
  /\ tree = filter
  /\ obj = object
  /\ matches = "None"
  /\ exp_expander = value_expander
  /\ exp_path = path
  /\ exp_result = [vals |-> <<>>, exc |-> "None"]
  /\ calls = [caller \in Callers |-> NoCall]

\* the calls of Expand: an expander, an object held as attributes or as a
\* dictionary, and a path.  The member a is missing, a scalar, a container
\* with or without the member b, or a list of such; names are also given in
\* capitals
ExpandInputs ==
  LET Members(a, b) ==
        [n \in AttrNames |->
           CASE n = <<"a">> -> a [] n = <<"b">> -> b [] n = <<"c">> -> Absent]
      Make(kind, a, b) == [t |-> kind, v |-> Members(a, b)]
      Inner(kind) ==
        {Make(kind, Absent, IntVal(1)), Make(kind, IntVal(2), Absent)}
      Values(kind) ==
        {Absent, IntVal(1), StrVal(<<"x", "y">>), StrVal(<<>>)}
          \cup Inner(kind)
          \cup {ListVal(<<Make(kind, Absent, IntVal(1)), IntVal(2),
                          Make(kind, Absent, IntVal(2))>>)}
  IN  [expander : {"AttributeValueExpander",
                   "LowercaseAttributeValueExpander", "DictValueExpander"},
       obj : UNION {{Make(kind, a, Absent) : a \in Values(kind)} :
                      kind \in {"obj", "dict"}},
       path : {<<"a">>, <<"b">>, <<"a", ".", "b">>, <<"a", ".", "a">>,
               <<"A">>, <<"A", ".", "b">>}]

\* list(expander.Expand(obj, path))
DoExpand ==
  /\ pc = "Expand"
  /\ exp_result' = Expand(exp_expander, obj, Split(exp_path))
  /\ pc' = "Expanded"
  /\ UNCHANGED <<query, parser_vars, length, ast, exception, tree, obj,
                 matches, exp_expander, exp_path, calls>>

SpecExpand ==
  /\ \E input \in ExpandInputs :
       InitCall("Expand", NoneEntry, input.obj, input.expander, input.path)
  /\ [][DoExpand]_vars

\* filters built by the caller: AndFilter and OrFilter over a few children,
\* one of which raises on a text candidate
FilterTrees ==
  LET Node(cls, attribute, literal) ==
        NewOperator(cls, <<attribute, literal>>, "AttributeValueExpander").f
      Children ==
        {Node("Equals", <<"a">>, IntVal(1)), Node("Equals", <<"b">>, IntVal(2)),
         Node("Contains", <<"a">>, IntVal(1))}
      ChildLists == UNION {[1..n -> Children] : n \in 0..MaxChildren}
  IN  {[kind |-> cls, args |-> args] :
         cls \in {"AndFilter", "OrFilter"}, args \in ChildLists}

\* InSet(arguments=['a', y]) built by the caller, for each kind of y
InSetFilters ==
  LET RightOperands ==
        <<ListVal(<<IntVal(1), IntVal(2)>>),
          ListVal(<<IntVal(1), StrVal(<<"x">>)>>),
          StrVal(<<"x", "y">>), IntVal(1)>>
  IN  [i \in 1..Len(RightOperands) |->
         NewOperator("InSet", <<(<<"a">>), RightOperands[i]>>,
                     "AttributeValueExpander").f]

\* filter.Matches(obj) on a filter built by the caller
InitFilter ==
  \/ \E filter \in FilterTrees :
       InitCall("Compiled", filter, NoneEntry, "None", <<>>)
  \/ \E i \in 1..Len(InSetFilters) :
       InitCall("Compiled", InSetFilters[i], NoneEntry, "None", <<>>)

SpecFilter == InitFilter /\ [][DoMatches]_vars

\* a filter whose negate flag a call of Matches has flipped
AfterMatchesFlipped(node) ==
  IF "bool_value" \in DOMAIN node THEN FlipBool(node)
  ELSE IF "args" \in DOMAIN node /\ node.args # <<>>
            /\ "bool_value" \in DOMAIN node.args[1]
       THEN [node EXCEPT !.args[1] = FlipBool(@)]
       ELSE node

\* the filter after a step of Matches: Matches, Operate and Expand assign no
\* attribute of the node and call nothing that does (FlipBool is called by
\* Compile only)
AfterMatches(node) == node

\* the filters several callers share, as Compile returns them for
\* `a is 1`, `a not is 1`, `a contains 1`, `a is 1 and b is 2`,
\* `a not is 1 and b not is 2`, `a is 1 or b not is 2`, `@c(a not is 1)`
SharedFilters ==
  LET Node(cls, attribute, literal) ==
        NewOperator(cls, <<attribute, literal>>, "AttributeValueExpander").f
      A == Node("Equals", <<"a">>, IntVal(1))
      B == Node("Equals", <<"b">>, IntVal(2))
  IN  << A, FlipBool(A), Node("Contains", <<"a">>, IntVal(1)),
         [kind |-> "AndFilter", args |-> <<A, B>>],
         [kind |-> "AndFilter", args |-> <<FlipBool(A), FlipBool(B)>>],
         [kind |-> "OrFilter", args |-> <<A, FlipBool(B)>>],
         [kind |-> "Context", context |-> <<"c">>, condition |-> FlipBool(A),
          value_expander |-> "AttributeValueExpander"] >>

\* the objects the callers pass
SharedObjects ==
  {Object(a, b, Absent) :
     a \in {Absent, IntVal(1), StrVal(<<"x">>)}, b \in {Absent, IntVal(2)}}
  \cup {Object(Absent, Absent, ListVal(<<Object(IntVal(1), Absent, Absent)>>))}

\* a caller calls tree.Matches(o)
CallMatches(caller) ==
  /\ pc = "Compiled"
  /\ calls[caller].at \in {"idle", "returned"}
  /\ \E o \in SharedObjects :
       calls' = [calls EXCEPT ![caller] =
                   [at |-> "running", obj |-> o, child |-> 1,
                    result |-> "None"]]
  /\ UNCHANGED <<query, parser_vars, pc, length, ast, exception, tree, obj,
                 matches, expand_vars>>

\* a caller's Matches goes on by one step: AndFilter.Matches and
\* OrFilter.Matches ask their next child, every other node answers at once;
\* each step reads the shared filter as it is then
StepMatches(caller) ==
  /\ pc = "Compiled"
  /\ calls[caller].at = "running"
  /\ LET call == calls[caller]
         Return(r) == [call EXCEPT !.at = "returned", !.result = r]
         NextChild == [call EXCEPT !.child = @ + 1]
     IN  calls' = [calls EXCEPT ![caller] =
           IF tree.kind \in {"AndFilter", "OrFilter"}
           THEN IF tree.kind = "OrFilter" /\ tree.args = <<>>
                THEN Return("True")
                ELSE IF call.child > Len(tree.args)
                THEN Return(Bool(tree.kind = "AndFilter"))
                ELSE LET r == Matches(tree.args[call.child], call.obj)
                     IN  IF r = Bool(tree.kind = "AndFilter")
                         THEN NextChild ELSE Return(r)
           ELSE Return(Matches(tree, call.obj))]
  /\ tree' = AfterMatches(tree)
  /\ UNCHANGED <<query, parser_vars, pc, length, ast, exception, obj, matches,
                 expand_vars>>

\* Matches called by several callers on one compiled filter
NextShared == \E caller \in Callers : CallMatches(caller) \/ StepMatches(caller)
SpecShared ==
  /\ \E i \in 1..Len(SharedFilters) :
       InitCall("Compiled", SharedFilters[i], NoneEntry, "None", <<>>)
  /\ [][NextShared]_vars

\* Parser(text).Parse() on every query of the parser's families
InitParse == \E q \in ParseQueries : InitWith(q, Render(q))
NextParse == Parse \/ NextToken \/ Reduce \/ ReduceLoop \/ ReduceEnd
SpecParse == InitParse /\ [][NextParse]_vars

\* Parser(text).Parse() on every single term with or without `not`
InitNot == \E q \in NotQueries : InitWith(q, Render(q))
SpecNot == InitNot /\ [][NextParse]_vars

\* Parser(text).Parse() on every sequence of a few lexemes and on the
\* queries of TailQueries
SpecRaw ==
  /\ \E q \in RawQueries \cup TailQueries : InitWith(q, Render(q))
  /\ [][NextParse]_vars

\* parse, compile and match
Init == \E q \in MatchQueries : InitWith(q, Render(q))
Next == Parse \/ NextToken \/ Reduce \/ ReduceLoop \/ ReduceEnd
          \/ DoCompile \/ DoMatches
Spec == Init /\ [][Next]_vars

(***************************************************************************)
(* The expressions the documented grammar gives a query, to compare with   *)
(* what Parse returns.                                                     *)
(***************************************************************************)
\* the k-th term of a query: `x is 1` with x the k-th letter
Term(k) ==
  [NewBasicExpression EXCEPT !.attribute = <<LowerSeq[k]>>,
                             !.operator = <<"i", "s">>,
                             !.args = <<IntVal(1)>>]
Binary(op, lhs, rhs) ==
  [kind |-> "BinaryExpression", operator |-> LexemeChars(op),
   args |-> <<lhs, rhs>>]
Context(name, inner) ==
  [kind |-> "ContextExpression", attribute |-> name, args |-> <<inner>>]

\* the grammar expr := conj ("or" conj)*, conj := atom ("and" atom)*,
\* atom := T | "(" expr ")", read from the i-th lexeme on after k terms
RefFail == [ok |-> FALSE, e |-> NoneEntry, i |-> 0, k |-> 0]

RECURSIVE RefOr(_, _, _)
RECURSIVE RefOrRest(_, _)
RECURSIVE RefAnd(_, _, _)
RECURSIVE RefAndRest(_, _)
RECURSIVE RefAtom(_, _, _)

RefAtom(q, i, k) ==
  IF i > Len(q) THEN RefFail
  ELSE IF q[i] = "T"
       THEN [ok |-> TRUE, e |-> Term(k + 1), i |-> i + 1, k |-> k + 1]
  ELSE IF q[i] = "("
       THEN LET r == RefOr(q, i + 1, k)
            IN  IF r.ok /\ r.i <= Len(q) /\ q[r.i] = ")"
                THEN [r EXCEPT !.i = @ + 1] ELSE RefFail
  ELSE RefFail

RefAndRest(q, left) ==
  IF left.ok /\ left.i <= Len(q) /\ q[left.i] = "and"
  THEN LET r == RefAtom(q, left.i + 1, left.k)
       IN  IF r.ok
           THEN RefAndRest(q, [r EXCEPT !.e = Binary("and", left.e, r.e)])
           ELSE RefFail
  ELSE left

RefAnd(q, i, k) == RefAndRest(q, RefAtom(q, i, k))

RefOrRest(q, left) ==
  IF left.ok /\ left.i <= Len(q) /\ q[left.i] = "or"
  THEN LET r == RefAnd(q, left.i + 1, left.k)
       IN  IF r.ok
           THEN RefOrRest(q, [r EXCEPT !.e = Binary("or", left.e, r.e)])
           ELSE RefFail
  ELSE left

RefOr(q, i, k) == RefOrRest(q, RefAnd(q, i, k))

RefParse(q) ==
  LET r == RefOr(q, 1, 0)
  IN  IF r.ok /\ r.i = Len(q) + 1 THEN r ELSE RefFail

\* an expression with every run of nested `and` (of nested `or`) made one
\* node of many operands, so that the grouping is compared up to
\* associativity
RECURSIVE Flat(_)
RECURSIVE FlatOperands(_, _)

FlatOperands(op, e) ==
  IF e.kind = "BinaryExpression" /\ Lower(e.operator) = op
  THEN LET parts == [i \in 1..Len(e.args) |-> FlatOperands(op, e.args[i])]
           Join[i \in 0..Len(parts)] ==
             IF i = 0 THEN <<>> ELSE Join[i - 1] \o parts[i]
       IN  Join[Len(parts)]
  ELSE <<Flat(e)>>

Flat(e) ==
  IF e.kind = "BinaryExpression"
  THEN [kind |-> "BinaryExpression", operator |-> Lower(e.operator),
        args |-> FlatOperands(Lower(e.operator), e)]
  ELSE IF e.kind = "ContextExpression"
  THEN [e EXCEPT !.args = [i \in 1..Len(e.args) |-> Flat(e.args[i])]]
  ELSE e

Count(q, l) == Cardinality({i \in 1..Len(q) : q[i] = l})

(***************************************************************************)
(* C1.  For every query of terms, `and`, `or` and brackets that Parse      *)
(* accepts, the expression returned groups the terms as the grammar does,  *)
(* `and` binding tighter than `or` at every nesting level.                 *)
(***************************************************************************)
C1_AndBindsTighter ==
  (pc = "Parsed" /\ RefParse(query).ok) =>
    Flat(ast) = Flat(RefParse(query).e)

(***************************************************************************)
(* C2.  For every accepted query `@c(A) and B` or `@c(A) or B` the         *)
(* expression returned is the binary node of Context(c, A) and B.          *)
(***************************************************************************)
C2_ContextEndsAtBracket ==
  \A op \in {"and", "or"} :
    (pc = "Parsed" /\ query = <<"@c", "(", "T", ")", op, "T">>) =>
      ast = Binary(op, Context(<<"c">>, Term(1)), Term(2))


(***************************************************************************)
(* C3.  A context filter over the path c with sub-filter F matches an      *)
(* object exactly when one single element of the list c satisfies F; a     *)
(* conjunction no single element satisfies does not match, though each of  *)
(* its conjuncts may be satisfied by some element.                         *)
(***************************************************************************)
Satisfies(filter, o) == Matches(filter, o) = "True"
ElementsOfC == obj.v[<<"c">>].v
ContextOverList ==
  /\ pc = "Matched"
  /\ tree.kind = "Context"
  /\ tree.context = <<"c">>
  /\ obj.v[<<"c">>].t = "list"

C4_MatchesNeverRaises ==
  (pc = "Matched" /\ tree.kind \in OperatorKinds) =>
    matches \in {"True", "False"}

(***************************************************************************)
(* C5.  `A && B` and `A || B` are accepted and compile to the evaluation   *)
(* tree `A and B` and `A or B` compile to.                                 *)
(***************************************************************************)
WordOf(symbol) == IF symbol = "&&" THEN "and" ELSE "or"

C5_SymbolicSpellings ==
  \A symbol \in {"&&", "||"} :
    (query = <<"T", symbol, "T">> /\ pc \in {"Parsed", "Raised"}) =>
      LET word == ParseResult(Render(<<"T", WordOf(symbol), "T">>))
          mine == Compile(ast, "BaseFilterImplementation")
          theirs == Compile(word.ast, "BaseFilterImplementation")
      IN  /\ pc = "Parsed"
          /\ mine.exc = "None"
          /\ mine.f = theirs.f

(***************************************************************************)
(* C6.  For every allow-listed operator, attribute, literal and object,    *)
(* the filter of `attr not op v` returns the boolean complement of what    *)
(* the filter of `attr op v` returns; an object without the attribute      *)
(* matches the negated form and does not match the plain one.              *)
(***************************************************************************)
AllowListed == {"is", "contains", "inset", "equals"}
PlainMatches ==
  Matches(Compile(ParseResult(Render(<<query[1], query[3], query[4]>>)).ast,
                  "BaseFilterImplementation").f, obj)

C6_NotIsComplement ==
  (/\ pc = "Matched"
   /\ Len(query) = 4
   /\ query[2] = "not"
   /\ query[3] \in AllowListed) =>
    \/ matches = "True" /\ PlainMatches = "False"
    \/ matches = "False" /\ PlainMatches = "True"

(***************************************************************************)
(* C7.  A term with one `not`, written before or after the operator, is a  *)
(* parse error when the operator is outside is, contains, inset, equals    *)
(* (in any case of letters), and is accepted when it is one of them.       *)
(***************************************************************************)
NotWords == {"not", "NOT"}
OneNot == Len(query) = 4 /\ (query[2] \in NotWords \/ query[3] \in NotWords)
OperatorOf == IF query[2] \in NotWords THEN query[3] ELSE query[2]
AllowListedSpellings == AllowListed \cup {"IS", "Contains"}

C7_NotOnlyOnAllowList ==
  OneNot =>
    /\ OperatorOf \notin AllowListedSpellings =>
         /\ pc # "Parsed"
         /\ pc = "Raised" =>
              exception = "ParseError: not does not work against operator"
    /\ OperatorOf \in AllowListedSpellings =>
         /\ pc # "Raised"
         /\ pc = "Parsed" =>
              /\ ast.kind = "BasicExpression"
              /\ ast.bool_value = FALSE

\* `not` before an operator outside the list: refused when the argument comes
C7_Witness ==
  /\ OneNot
  /\ query[2] \in NotWords
  /\ OperatorOf \notin AllowListedSpellings
  /\ pc = "Raised"
  /\ exception = "ParseError: not does not work against operator"

(***************************************************************************)
(* C8.  Every non-empty query whose brackets do not balance fails to       *)
(* parse, a query that is a single bracket included.                       *)
(***************************************************************************)
C8_UnbalancedFails ==
  (query # <<>> /\ Count(query, "(") # Count(query, ")")) => pc # "Parsed"

(***************************************************************************)
(* C9.  For a comparison node that has not been negated, Matches is true   *)
(* exactly when some value yielded by expanding the left path satisfies    *)
(* the predicate; with no value the result is false.                       *)
(***************************************************************************)
Candidates == Expand(tree.value_expander, obj, Split(tree.left_operand))

C9_SomeCandidateSatisfies ==
  (/\ pc = "Matched"
   /\ tree.kind \in OperatorKinds
   /\ tree.bool_value
   /\ Candidates.exc = "None") =>
    /\ (matches = "True") <=>
         \E i \in 1..Len(Candidates.vals) :
           Operation(tree, Candidates.vals[i]) = "True"
    /\ Candidates.vals = <<>> => matches = "False"

(***************************************************************************)
(* C10.  `A and @c(B)` and `A or @c(B)` are accepted, and Parse returns    *)
(* the binary node of A and Context(c, B).                                 *)
(***************************************************************************)
C10_ContextAsRightOperand ==
  \A op \in {"and", "or"} :
    (query = <<"T", op, "@c", "(", "T", ")">> /\ pc \in {"Parsed", "Raised"})
      => /\ pc = "Parsed"
         /\ ast = Binary(op, Term(1), Context(<<"c">>, Term(2)))


(***************************************************************************)
(* C11.  When the path of a Context filter resolves to a value that cannot *)
(* be iterated, a nested object or a scalar, Matches returns false and     *)
(* does not raise.                                                         *)
(***************************************************************************)
C11_ContextOverNonIterable ==
  (/\ pc = "Matched"
   /\ tree.kind = "Context"
   /\ tree.context = <<"c">>
   /\ obj.v[<<"c">>] # Absent
   /\ ~Iterate(obj.v[<<"c">>]).ok) => matches = "False"


(***************************************************************************)
(* C12.  Parse fails with a parse error whenever the input ends while the  *)
(* lexer state is neither INITIAL nor BINARY: after an attribute with no   *)
(* operator, after an operator with no argument, after a context name with *)
(* no bracket, inside an unterminated quoted string.                       *)
(***************************************************************************)
EndsEarly ==
  { <<"a">>, <<"a", "is">>, <<"a", "not">>, <<"a", "is", "not">>, <<"@c">>,
    <<"a", "is", "\"x">>, <<"a", "is", "'x">>,
    <<"T", "and", "b">>, <<"(", "a", "is">>, <<"@c", "(", "a">> }
InputEnded == pc \notin {"Parse", "Close", "Reduce"}
ParseErrors ==
  {"ParseError: Expected state", "ParseError: Illegal query expression",
   "ParseError: Invalid escape character", "ParseError: Invalid hex escape",
   "ParseError: Not defined", "ParseError: Premature end of expression",
   "ParseError: Too many arguments",
   "ParseError: Tried to pop the state but failed",
   "ParseError: not after an argument",
   "ParseError: not can only be expressed once",
   "ParseError: not does not work against operator"}

C12_PrematureEndFails ==
  /\ (InputEnded /\ buffer = <<>> /\ state \notin {"INITIAL", "BINARY"}) =>
       /\ pc = "Raised"
       /\ exception \in ParseErrors
  /\ (InputEnded /\ query \in EndsEarly) =>
       /\ pc = "Raised"
       /\ state \notin {"INITIAL", "BINARY"}
       /\ exception = "ParseError: Premature end of expression"

\* the input ended inside a quoted string
C12_Witness ==
  /\ query = <<"a", "is", "\"x">>
  /\ pc = "Raised"
  /\ buffer = <<>>
  /\ state = "STRING"
  /\ exception = "ParseError: Premature end of expression"


(***************************************************************************)
(* C13.  A term whose argument is 0x followed by hexadecimal digits (0-9   *)
(* and a-f) is accepted by Parse, and the argument stored is the base-16   *)
(* value of the digits.                                                    *)
(***************************************************************************)
HexLexemes == {"0x1", "0x9", "0x10", "0xa", "0x1f", "0xff"}
HexDigitsOf(lexeme) == SubSeq(LexemeChars(lexeme), 3, Len(LexemeChars(lexeme)))
Base16Digit(c) ==
  CASE c = "a" -> 10 [] c = "b" -> 11 [] c = "c" -> 12 [] c = "d" -> 13
    [] c = "e" -> 14 [] c = "f" -> 15
    [] OTHER -> CHOOSE n \in 0..9 : DigitSeq[n + 1] = c
RECURSIVE Base16(_)
Base16(ds) ==
  IF ds = <<>> THEN 0
  ELSE 16 * Base16(SubSeq(ds, 1, Len(ds) - 1)) + Base16Digit(ds[Len(ds)])

ParseEnded ==
  pc \notin {"Parse", "Close", "Reduce", "ReduceLoop", "ReduceEnd"}

C13_HexadecimalArgument ==
  (/\ ParseEnded
   /\ Len(query) = 3
   /\ query[1] = "a" /\ query[2] = "is" /\ query[3] \in HexLexemes) =>
    /\ pc # "Raised"
    /\ ast.kind = "BasicExpression"
    /\ ast.args = <<IntVal(Base16(HexDigitsOf(query[3])))>>


(***************************************************************************)
(* C14.  The documented query `(color is grey) and (doors >= 3)`, whose    *)
(* argument grey is an unquoted word, is accepted by Parse and compiles to *)
(* a filter matching the objects whose color equals "grey" and whose doors *)
(* is at least 3.  Here a stands for color, x for grey, b for doors and 2  *)
(* for 3.                                                                  *)
(***************************************************************************)
DocumentedQuery == <<"(", "a", "is", "x", ")", "and", "(", "b", ">=", "2", ")">>

C14_UnquotedWordArgument ==
  (query = DocumentedQuery /\ ParseEnded) =>
    /\ pc \notin {"Raised", "CompileRaised"}
    /\ pc = "Matched" =>
         matches = Bool(/\ obj.v[<<"a">>] = StrVal(<<"x">>)
                        /\ IsNumber(obj.v[<<"b">>])
                        /\ ~NumLess(obj.v[<<"b">>], IntVal(2)))


(***************************************************************************)
(* C15.  With the dictionary expander, expanding the path a.b on obj       *)
(* yields the value obj["a"]["b"] when both keys are present.              *)
(***************************************************************************)
Member(value, name) ==
  IF value.t \in {"obj", "dict"} /\ name \in DOMAIN value.v
  THEN value.v[name] ELSE Absent

C15_DictionaryPath ==
  (/\ pc = "Expanded"
   /\ exp_expander = "DictValueExpander"
   /\ exp_path = <<"a", ".", "b">>
   /\ obj.t = "dict"
   /\ Member(obj, <<"a">>).t = "dict"
   /\ Member(Member(obj, <<"a">>), <<"b">>) # Absent) =>
    exp_result =
      [vals |-> <<Member(Member(obj, <<"a">>), <<"b">>)>>, exc |-> "None"]

(***************************************************************************)
(* C16.  For each of the three expanders, Expand yields nothing and does   *)
(* not raise when a segment of the path is absent on the value it is       *)
(* resolved against: the first segment on the object, or the second on the *)
(* scalar or the container the first one resolved to.                      *)
(***************************************************************************)
HeldFor(value_expander) ==
  IF value_expander = "DictValueExpander" THEN "dict" ELSE "obj"
SegmentNames(value_expander, path) ==
  LET segments == Split(path)
  IN  [i \in 1..Len(segments) |->
         IF value_expander = "LowercaseAttributeValueExpander" /\ i = 1
         THEN Lower(segments[i]) ELSE segments[i]]
FirstValue == Member(obj, SegmentNames(exp_expander, exp_path)[1])
SegmentAbsent ==
  \/ FirstValue = Absent
  \/ /\ Len(SegmentNames(exp_expander, exp_path)) = 2
     /\ FirstValue.t \in {"int", HeldFor(exp_expander)}
     /\ Member(FirstValue, SegmentNames(exp_expander, exp_path)[2]) = Absent

C16_AbsentYieldsNothing ==
  (/\ pc = "Expanded"
   /\ obj.t = HeldFor(exp_expander)
   /\ SegmentAbsent) => exp_result = [vals |-> <<>>, exc |-> "None"]


(***************************************************************************)
(* C17.  A term with regexp or iregexp whose literal is a malformed        *)
(* pattern makes Compile fail; no Matches call on a tree that Compile      *)
(* returned for such an operator raises.                                   *)
(***************************************************************************)
MalformedPatternTerm ==
  /\ Len(query) = 3
  /\ query[2] \in {"regexp", "iregexp"}
  /\ query[3] = "\"[\""

C17_MalformedPatternFailsCompile ==
  /\ (MalformedPatternTerm /\ ParseEnded) =>
       /\ pc \in {"Parsed", "CompileRaised"}
       /\ pc = "CompileRaised" => exception = "ValueError"
  /\ (pc = "Matched" /\ tree.kind \in {"Regexp", "RegexpInsensitive"}) =>
       matches \in {"True", "False"}

C17_Witness ==
  /\ MalformedPatternTerm
  /\ pc = "CompileRaised"
  /\ exception = "ValueError"

(***************************************************************************)
(* C18.  Compile of a basic term succeeds if and only if the lower-cased   *)
(* operator is a key of the operator table: a term with an unknown         *)
(* operator and no `not` is accepted by Parse and rejected by Compile with *)
(* the unknown-operator error, and IS, Is and is select the same node      *)
(* type.                                                                   *)
(***************************************************************************)
PlainTerm ==
  /\ Len(query) = 3
  /\ query[1] \in {"a", "c.a"}
  /\ query[2] \in OperatorLexemes \cup {"IS", "Is", "Contains", "foo"}
  /\ query[3] \in LiteralLexemes \cup {"\"[\""}
IsKey(operator) ==
  \E i \in 1..Len(OPS) : OPS[i].name = Lower(LexemeChars(operator))
NodeTypeOf(operator) ==
  Compile(ParseResult(Render(<<query[1], operator, query[3]>>)).ast,
          "BaseFilterImplementation").f.kind

C18_CompileIffOperatorKnown ==
  (PlainTerm /\ ParseEnded) =>
    /\ pc # "Raised"
    /\ pc \in {"Compiled", "Matched"} => IsKey(query[2])
    /\ pc = "CompileRaised" =>
         /\ ~IsKey(query[2])
         /\ exception = "ParseError: Unknown operator"
    /\ (pc \in {"Compiled", "Matched"} /\ query[2] \in {"IS", "Is"}) =>
         tree.kind = NodeTypeOf("is")


(***************************************************************************)
(* C19.  AndFilter.Matches is the conjunction and OrFilter.Matches the     *)
(* disjunction of the children's results, taken in stored order up to the  *)
(* first child that decides; no later child is evaluated, so what a later  *)
(* child would return or raise does not count.  With no children both      *)
(* return true.                                                            *)
(***************************************************************************)
ChildResults == [i \in 1..Len(tree.args) |-> Matches(tree.args[i], obj)]
Deciding(decides) == {i \in 1..Len(tree.args) : ChildResults[i] # decides}

C19_ShortCircuit ==
  /\ (pc = "Matched" /\ tree.kind = "AndFilter") =>
       matches = IF Deciding("True") = {} THEN "True"
                 ELSE ChildResults[Min(Deciding("True"))]
  /\ (pc = "Matched" /\ tree.kind = "OrFilter") =>
       matches = IF tree.args = <<>> THEN "True"
                 ELSE IF Deciding("False") = {} THEN "False"
                 ELSE ChildResults[Min(Deciding("False"))]

\* the first child says no and the second would raise
C19_Witness ==
  /\ pc = "Matched"
  /\ tree.kind = "AndFilter"
  /\ Len(tree.args) = 2
  /\ ChildResults[1] = "False"
  /\ ChildResults[2] \notin {"True", "False"}
  /\ matches = "False"

(***************************************************************************)
(* C20.  InSet on candidate x and literal y is true when x is a member of  *)
(* y, or when x is a non-text iterable whose every element is a member of  *)
(* y; it is false when x is text not contained in y, when x is not         *)
(* iterable and not a member of y, and when some element of x is not a     *)
(* member of y.                                                            *)
(***************************************************************************)
MemberOf(x, y) ==
  CASE y.t = "list" -> \E i \in 1..Len(y.v) : PyEqual(y.v[i], x)
    [] y.t = "str" -> x.t = "str" /\ IsSubstring(x.v, y.v)
    [] OTHER -> FALSE

C20_InSet ==
  (/\ pc = "Matched"
   /\ tree.kind = "InSet"
   /\ tree.left_operand = <<"a">>
   /\ obj.v[<<"a">>] # Absent) =>
    LET x == obj.v[<<"a">>]
        y == tree.right_operand
    IN  matches =
          Bool(\/ MemberOf(x, y)
               \/ /\ x.t = "list"
                  /\ \A i \in 1..Len(x.v) : MemberOf(x.v[i], y))


(***************************************************************************)
(* C21.  After Compile has returned no call of Matches changes any field   *)
(* of any node of the evaluation tree, so whatever the interleaving of the *)
(* callers' Matches calls on the shared tree, each call returns what       *)
(* Matches returns for its object when it runs alone.                      *)
(***************************************************************************)
C21_SharedTreeUnchanged ==
  [][pc = "Compiled" =>
       /\ tree' = tree
       /\ \A caller \in Callers :
            calls'[caller].at = "returned" =>
              calls'[caller].result = Matches(tree, calls'[caller].obj)]_vars

\* one caller has returned while another is between two children with
\* another object
C21_Witness ==
  \E c1, c2 \in Callers :
    /\ calls[c1].at = "returned"
    /\ calls[c2].at = "running"
    /\ calls[c2].child = 2
    /\ calls[c1].obj # calls[c2].obj
    /\ calls[c1].result # Matches(tree, calls[c2].obj)


(***************************************************************************)
(* C22.  Parse of the empty query returns an IdentityExpression without a  *)
(* call of NextToken, Compile of it returns a filter, and that filter      *)
(* matches every object.                                                   *)
(***************************************************************************)
C22_EmptyQueryMatchesAll ==
  filter_string = <<>> /\ pc # "Parse" =>
    /\ ast = IdentityExpression
    /\ processed = 0 /\ stack = <<>> /\ state = "INITIAL"
    /\ pc # "CompileRaised"
    /\ pc = "Matched" => matches = "True"


(***************************************************************************)
(* The nodes reachable from an expression, the expression first.           *)
(***************************************************************************)
RECURSIVE NodesOf(_)
NodesOf(e) ==
  IF e.kind \in {"BinaryExpression", "ContextExpression"}
  THEN LET parts == [i \in 1..Len(e.args) |-> NodesOf(e.args[i])]
           Join[i \in 0..Len(parts)] ==
             IF i = 0 THEN <<e>> ELSE Join[i - 1] \o parts[i]
       IN  Join[Len(parts)]
  ELSE <<e>>

NodesOfKind(e, kind) ==
  {i \in 1..Len(NodesOf(e)) : NodesOf(e)[i].kind = kind}

(***************************************************************************)
(* C23.  Every BinaryExpression reachable from an expression that Parse    *)
(* returns has exactly two operands, both of them expressions: a query     *)
(* that leaves an `and` or `or` without an operand is not returned with    *)
(* the operand-less node inside it.                                        *)
(***************************************************************************)
C23_BinaryHasTwoOperands ==
  pc = "Parsed" =>
    \A i \in NodesOfKind(ast, "BinaryExpression") :
      LET node == NodesOf(ast)[i] IN
      /\ Len(node.args) = 2
      /\ IsExpression(node.args[1])
      /\ IsExpression(node.args[2])

(***************************************************************************)
(* C24.  Whenever Parse returns an expression, every term of the query is  *)
(* reachable from it exactly once: no pass of Reduce overwrites or drops   *)
(* an expression already attached to a context or binary node, and two     *)
(* expressions side by side with no binary operator between them are       *)
(* rejected.                                                               *)
(***************************************************************************)
TermCount(e, k) ==
  Cardinality({i \in NodesOfKind(e, "BasicExpression") :
                 NodesOf(e)[i].attribute = <<LowerSeq[k]>>})

C24_EveryTermOnce ==
  pc = "Parsed" =>
    \A k \in 1..Count(query, "T") : TermCount(ast, k) = 1

(***************************************************************************)
(* C25.  Every ContextExpression reachable from an expression that Parse   *)
(* returns has exactly one inner expression; the queries `@c`, `@c (`,     *)
(* `@c ( )` and a context standing as the right operand of `and` before    *)
(* its group are rejected.                                                 *)
(***************************************************************************)
EmptyContextQueries ==
  { <<"@c">>, <<"@c", "(">>, <<"@c", "(", ")">>,
    <<"T", "and", "@c", "(", "T", ")">>, <<"T", "and", "@c">> }

C25_ContextHasOneExpression ==
  /\ pc = "Parsed" =>
       \A i \in NodesOfKind(ast, "ContextExpression") :
         LET node == NodesOf(ast)[i] IN
         Len(node.args) = 1 /\ IsExpression(node.args[1])
  /\ query \in EmptyContextQueries => pc # "Parsed"


(***************************************************************************)
(* C26.  Every call of NextToken that returns a matched rule leaves the    *)
(* remaining buffer strictly shorter than it was before the call.          *)
(***************************************************************************)
C26_NextTokenConsumes ==
  [][pc = "Close" /\ pc' # "Raised" => Len(buffer') < Len(buffer)]_vars

(***************************************************************************)
(* C27.  Close terminates: a call of NextToken that does not shorten the   *)
(* buffer is one of the rules that push their match back (INITIAL to       *)
(* ATTRIBUTE, CHECKNOT to ARG, the fallback of BINARY), it leaves the      *)
(* buffer as long as it was and moves to a state from which fewer such     *)
(* calls can follow, so at most two follow one another before the buffer   *)
(* gets shorter or a parse error is raised; the loop is left only with an  *)
(* empty buffer or by the error.                                           *)
(***************************************************************************)
PushBacksAhead(s) ==
  CASE s = "BINARY" -> 2
    [] s \in {"INITIAL", "CHECKNOT"} -> 1
    [] OTHER -> 0

C27_CloseTerminates ==
  [][pc = "Close" =>
       /\ pc' \in {"Close", "Reduce", "Raised"}
       /\ pc' = "Reduce" <=> (exception' = "None" /\ buffer' = <<>>)
       /\ pc' # "Raised" =>
            \/ Len(buffer') < Len(buffer)
            \/ /\ Len(buffer') = Len(buffer)
               /\ PushBacksAhead(state') < PushBacksAhead(state)]_vars

\* the second of two calls in a row that pushed their match back: the
\* fallback of BINARY has led to INITIAL, which now leads to ATTRIBUTE
C27_Witness ==
  /\ pc = "Close"
  /\ state = "ATTRIBUTE"
  /\ Len(state_stack) >= 2
  /\ processed > 0
  /\ Len(buffer) + Len(processed_buffer) = Len(filter_string)
  /\ stack # <<>> /\ stack[Len(stack)].kind = "BasicExpression"


(***************************************************************************)
(* C28.  Within one term `not` is accepted at most once: a second `not`,   *)
(* before or after the operator, is a parse error, and so is a `not` after *)
(* the argument.  The once-only flag is reset when the next term's         *)
(* attribute is stored, so each term of a query joined by `and` or `or`    *)
(* carries its own `not`, and the negation of one term does not carry over *)
(* to the next.                                                            *)
(***************************************************************************)
\* the terms of a query of one or two terms `x [not..] is [not..] 1 [not]`
BinaryAt(q) == {i \in 1..Len(q) : q[i] \in BinaryLexemes}
TermsOfQuery(q) ==
  IF BinaryAt(q) = {} THEN <<q>>
  ELSE LET i == Min(BinaryAt(q))
       IN  <<SubSeq(q, 1, i - 1), SubSeq(q, i + 1, Len(q))>>
IsNotTerm(t) ==
  /\ Len(t) >= 3
  /\ t[1] \in {"a", "b"}
  /\ \A i \in 2..Len(t) : t[i] \in {"not", "is", "1"}
  /\ Count(t, "is") = 1 /\ Count(t, "1") = 1
IsNotQuery(q) ==
  /\ q # <<>>
  /\ Cardinality(BinaryAt(q)) <= 1
  /\ \A i \in 1..Len(TermsOfQuery(q)) : IsNotTerm(TermsOfQuery(q)[i])
WellNegated(t) == Count(t, "not") <= 1 /\ t[Len(t)] # "not"
NegatedTerm(t) ==
  [NewBasicExpression EXCEPT !.attribute = <<t[1]>>,
                             !.operator = <<"i", "s">>,
                             !.args = <<IntVal(1)>>,
                             !.bool_value = (Count(t, "not") = 0)]

C28_NotOncePerTerm ==
  IsNotQuery(query) =>
    LET terms == TermsOfQuery(query) IN
    /\ pc = "Raised" => \E i \in 1..Len(terms) : ~WellNegated(terms[i])
    /\ pc = "Parsed" =>
         /\ \A i \in 1..Len(terms) : WellNegated(terms[i])
         /\ IF Len(terms) = 1 THEN ast = NegatedTerm(terms[1])
            ELSE /\ ast.kind = "BinaryExpression"
                 /\ ast.args = <<NegatedTerm(terms[1]), NegatedTerm(terms[2])>>

\* both terms carry a `not`, the second after the operator
C28_Witness ==
  /\ pc = "Parsed"
  /\ query = <<"a", "not", "is", "1", "and", "b", "is", "not", "1">>
  /\ ~ast.args[1].bool_value
  /\ ~ast.args[2].bool_value


(***************************************************************************)
(* C29.  When the first segment of a two-segment path resolves to a text,  *)
(* Expand does not iterate the text: the result is that of resolving the   *)
(* rest of the path against the text itself, once.                         *)
(***************************************************************************)
FirstResolved ==
  GetValue(exp_expander, obj, GetAttributeName(exp_expander, Split(exp_path)))

C29_TextSegmentNotIterated ==
  (/\ pc = "Expanded"
   /\ Len(Split(exp_path)) = 2
   /\ FirstResolved.exc = "None"
   /\ FirstResolved.v.t = "str") =>
    exp_result = Expand(exp_expander, FirstResolved.v, Tail(Split(exp_path)))


(***************************************************************************)
(* C30.  Reduce terminates: an iteration of its loop never lengthens the   *)
(* stack, the loop is entered again only after an iteration that made the  *)
(* stack strictly shorter, and after the loop Reduce returns stack[0] when *)
(* exactly one entry remains and raises "Illegal query expression"         *)
(* otherwise.                                                              *)
(***************************************************************************)
C30_ReduceTerminates ==
  [][/\ pc = "ReduceLoop" =>
          /\ pc' \in {"ReduceLoop", "ReduceEnd"}
          /\ Len(stack') <= Len(stack)
          /\ pc' = "ReduceLoop" => Len(stack') < Len(stack)
          /\ pc' = "ReduceEnd" => Len(stack') = Len(stack) /\ ast' = ast
     /\ pc = "ReduceEnd" =>
          /\ stack' = stack
          /\ IF Len(stack) = 1
             THEN pc' = "Parsed" /\ ast' = stack[1] /\ exception' = "None"
             ELSE /\ pc' = "Raised"
                  /\ exception' = "ParseError: Illegal query expression"]_vars

\* between two iterations that both shorten the stack
C30_Witness ==
  /\ pc = "ReduceLoop"
  /\ \E i \in 1..Len(stack) :
       stack[i].kind = "BinaryExpression" /\ stack[i].args # <<>>
  /\ Len(stack) > 1
  /\ Len(ReducePassResult(stack)) < Len(stack)


(***************************************************************************)
(* C31.  After every call of NextToken, returned or raised, and also after *)
(* the rules that push the match back, processed_buffer followed by buffer *)
(* is the text of the query, so the position Error reports, the length of  *)
(* processed_buffer, is the length of the text taken off the buffer.       *)
(***************************************************************************)
C31_ProcessedThenBufferIsQuery ==
  /\ processed_buffer \o buffer = filter_string
  /\ Len(processed_buffer) = Len(filter_string) - Len(buffer)
  /\ Len(processed_buffer) <= processed

\* a parse error after two matches were pushed back, in the middle of the text
C31_Witness ==
  /\ pc = "Raised"
  /\ processed >= Len(processed_buffer) + 2
  /\ processed_buffer # <<>>
  /\ buffer # <<>>


(***************************************************************************)
(* C32.  The state stack holds only INITIAL and ARG entries.  An ARG entry *)
(* is pushed at an opening quote and popped at the closing quote: it is on *)
(* the stack exactly while the lexer is inside a quoted string, as the     *)
(* last entry and the only ARG.  So in BINARY the stack holds only INITIAL *)
(* entries, and the fallback rule of BINARY pops one and resumes in        *)
(* INITIAL with the buffer as it was, or raises on an empty stack.         *)
(***************************************************************************)
InString == state \in {"STRING", "SQ_STRING"}

StateStackShape ==
  /\ \A i \in 1..Len(state_stack) : state_stack[i] \in {"INITIAL", "ARG"}
  /\ \A i \in 1..Len(state_stack) :
       state_stack[i] = "ARG" => i = Len(state_stack) /\ InString
  /\ InString => state_stack # <<>> /\ state_stack[Len(state_stack)] = "ARG"
  /\ state = "BINARY" =>
       \A i \in 1..Len(state_stack) : state_stack[i] = "INITIAL"

BinaryFallback ==
  /\ pc = "Close"
  /\ state = "BINARY"
  /\ FirstToken(Self) # 0
  /\ tokens[FirstToken(Self)].actions = <<"PushBack", "PopState">>

OpeningQuote ==
  /\ pc = "Close"
  /\ FirstToken(Self) # 0
  /\ tokens[FirstToken(Self)].actions = <<"PushState", "StringStart">>

ClosingQuote ==
  /\ pc = "Close"
  /\ FirstToken(Self) # 0
  /\ tokens[FirstToken(Self)].actions = <<"PopState", "StringFinish">>

C32_StateStackDiscipline ==
  [][/\ StateStackShape
     /\ StateStackShape'
     /\ OpeningQuote => state_stack' = Append(state_stack, "ARG") /\ InString'
     /\ ClosingQuote =>
          /\ state_stack' = SubSeq(state_stack, 1, Len(state_stack) - 1)
          /\ state_stack[Len(state_stack)] = "ARG"
     /\ ~InString /\ ~OpeningQuote => \A i \in 1..Len(state_stack') : state_stack'[i] # "ARG"
     /\ BinaryFallback =>
          IF state_stack = <<>>
          THEN /\ pc' = "Raised"
               /\ exception' = "ParseError: Tried to pop the state but failed"
          ELSE /\ pc' = "Close"
               /\ state' = "INITIAL"
               /\ state_stack' = SubSeq(state_stack, 1, Len(state_stack) - 1)
               /\ buffer' = buffer]_vars

\* in BINARY after a quoted argument was closed, with the fallback rule next
\* and an entry to pop
C32_Witness ==
  /\ BinaryFallback
  /\ state_stack # <<>>
  /\ \E i \in 1..Len(processed_buffer) : processed_buffer[i] \in {"\"", "'"}

====
